---- MODULE Spec2Model ----
(***************************************************************************)
(* Branding pipeline of docs-to-tutorial: the colour codec                 *)
(* (rgbaToHex, darkenHex, detectTheme), the logo resolver                  *)
(* (extractLogoFromCloud) and the three orchestrators (extractBranding,    *)
(* extractUrlContent, extractDocsContent).                                 *)
(*                                                                         *)
(* A JavaScript string is a TLA+ string; the operators that look inside a  *)
(* string work on its sequence of characters, Chars(s).  A value that may  *)
(* be null is a tuple: Null (the empty tuple) or Some(s).                  *)
(***************************************************************************)
EXTENDS Integers, Sequences, FiniteSets, TLC

(***************************************************************************)
(* Strings                                                                 *)
(***************************************************************************)
Chars(str) == [i \in 1..Len(str) |-> SubSeq(str, i, i)]

RECURSIVE Join(_)
Join(cs) == IF cs = <<>> THEN "" ELSE Head(cs) \o Join(Tail(cs))

Null == <<>>
Some(s) == <<s>>

\* JavaScript truthiness of a nullable string: null and "" are falsy.
Truthy(v) == v # Null /\ v[1] # ""

IsSpace(c) == c \in {" ", "\t", "\n"}
IsDigit(c) == c \in {"0", "1", "2", "3", "4", "5", "6", "7", "8", "9"}

RECURSIVE SkipSpaces(_, _)
\* first index >= i of cs that holds no white space (Len(cs)+1 if none)
SkipSpaces(cs, i) ==
  IF i <= Len(cs) /\ IsSpace(cs[i]) THEN SkipSpaces(cs, i + 1) ELSE i

RECURSIVE SkipDigits(_, _)
SkipDigits(cs, i) ==
  IF i <= Len(cs) /\ IsDigit(cs[i]) THEN SkipDigits(cs, i + 1) ELSE i

RECURSIVE LastNonSpace(_, _)
LastNonSpace(cs, j) ==
  IF j >= 1 /\ IsSpace(cs[j]) THEN LastNonSpace(cs, j - 1) ELSE j

\* String.prototype.trim, on characters
TrimChars(cs) == SubSeq(cs, SkipSpaces(cs, 1), LastNonSpace(cs, Len(cs)))

\* no cut at all: the whole string is kept
SliceWhole(cs, n) == cs

\* String.prototype.slice(0, n), on characters
SliceTo(cs, n) == SubSeq(cs, 1, IF Len(cs) < n THEN Len(cs) ELSE n)

StartsWithAt(cs, i, pre) ==
  /\ i + Len(pre) - 1 <= Len(cs)
  /\ SubSeq(cs, i, i + Len(pre) - 1) = pre

LowerOf ==
  [c \in {"A","B","C","D","E","F","G","H","I","J","K","L","M",
          "N","O","P","Q","R","S","T","U","V","W","X","Y","Z"} |->
     CASE c = "A" -> "a" [] c = "B" -> "b" [] c = "C" -> "c" [] c = "D" -> "d"
       [] c = "E" -> "e" [] c = "F" -> "f" [] c = "G" -> "g" [] c = "H" -> "h"
       [] c = "I" -> "i" [] c = "J" -> "j" [] c = "K" -> "k" [] c = "L" -> "l"
       [] c = "M" -> "m" [] c = "N" -> "n" [] c = "O" -> "o" [] c = "P" -> "p"
       [] c = "Q" -> "q" [] c = "R" -> "r" [] c = "S" -> "s" [] c = "T" -> "t"
       [] c = "U" -> "u" [] c = "V" -> "v" [] c = "W" -> "w" [] c = "X" -> "x"
       [] c = "Y" -> "y" [] c = "Z" -> "z"]

\* String.prototype.toLowerCase
ToLowerCase(str) ==
  Join([i \in 1..Len(str) |->
          LET c == SubSeq(str, i, i)
          IN  IF c \in DOMAIN LowerOf THEN LowerOf[c] ELSE c])

(***************************************************************************)
(* Numbers in text                                                         *)
(***************************************************************************)
HexDigits == <<"0","1","2","3","4","5","6","7","8","9","a","b","c","d","e","f">>

IsHexDigit(c) == ToLowerCase(c) \in {HexDigits[k] : k \in 1..16}

HexDigitValue(c) == (CHOOSE k \in 1..16 : HexDigits[k] = ToLowerCase(c)) - 1

DecDigitValue(c) == HexDigitValue(c)

RECURSIVE DecValue(_)
\* the value of a sequence of decimal digits
DecValue(ds) ==
  IF ds = <<>> THEN 0
  ELSE 10 * DecValue(SubSeq(ds, 1, Len(ds) - 1)) + DecDigitValue(ds[Len(ds)])

\* The bit operations of detectTheme read bits 0..23 of the parsed number, so
\* the value of a run of hex digits is kept modulo 2^24 (exact for a run of six
\* digits or fewer, and the same bits for a longer one).
Two24 == 16777216

RECURSIVE HexPrefixValue(_, _, _)
\* the value of the longest run of hex digits of cs that starts at i
HexPrefixValue(cs, i, acc) ==
  IF i <= Len(cs) /\ IsHexDigit(cs[i])
  THEN HexPrefixValue(cs, i + 1, (16 * acc + HexDigitValue(cs[i])) % Two24)
  ELSE acc

\* parseInt(str, 16): leading white space, a sign, an 0x prefix, then the
\* longest run of hex digits; NaN (ok = FALSE) when that run is empty.
ParseIntHex(str) ==
  LET cs   == Chars(str)
      i0   == SkipSpaces(cs, 1)
      neg  == i0 <= Len(cs) /\ cs[i0] = "-"
      i1   == IF i0 <= Len(cs) /\ cs[i0] \in {"-", "+"} THEN i0 + 1 ELSE i0
      i2   == IF StartsWithAt(cs, i1, <<"0", "x">>) \/ StartsWithAt(cs, i1, <<"0", "X">>)
              THEN i1 + 2 ELSE i1
      some == i2 <= Len(cs) /\ IsHexDigit(cs[i2])
      v    == HexPrefixValue(cs, i2, 0)
  IN  [ok |-> some, v |-> IF some THEN (IF neg THEN 0 - v ELSE v) ELSE 0]

RECURSIVE NatToHex(_)
NatToHex(n) ==
  IF n < 16 THEN HexDigits[n + 1]
  ELSE NatToHex(n \div 16) \o HexDigits[(n % 16) + 1]

\* Number.prototype.toString(16) of an integer
ToString16(n) == IF n < 0 THEN "-" \o NatToHex(0 - n) ELSE NatToHex(n)

\* String.prototype.padStart(2, '0')
PadStart2(str) == IF Len(str) = 0 THEN "00" ELSE IF Len(str) = 1 THEN "0" \o str ELSE str

\* Math.floor(c * num / den): the product truncated, not rounded
TruncMul(c, num, den) == (c * num) \div den

\* Math.round(c * num / den) for an integer c and den > 0: floor(x + 1/2)
RoundMul(c, num, den) == (2 * c * num + den) \div (2 * den)


(***************************************************************************)
(* Rationals, for the arithmetic of hslToHex.  A number is NaN or n/d.     *)
(***************************************************************************)
RECURSIVE Gcd(_, _)
Gcd(a, b) == IF b = 0 THEN a ELSE Gcd(b, a % b)

Abs(n) == IF n < 0 THEN 0 - n ELSE n

NaN == [nan |-> TRUE, n |-> 0, d |-> 1]

Rat(n, d) ==
  LET g == Gcd(Abs(n), d)
  IN  [nan |-> FALSE, n |-> n \div g, d |-> d \div g]

RAdd(a, b) == IF a.nan \/ b.nan THEN NaN ELSE Rat(a.n * b.d + b.n * a.d, a.d * b.d)
RSub(a, b) == IF a.nan \/ b.nan THEN NaN ELSE Rat(a.n * b.d - b.n * a.d, a.d * b.d)
RMul(a, b) == IF a.nan \/ b.nan THEN NaN ELSE Rat(a.n * b.n, a.d * b.d)
\* a comparison with NaN is false
RLt(a, b) == ~a.nan /\ ~b.nan /\ a.n * b.d < b.n * a.d
RGt(a, b) == RLt(b, a)

RECURSIVE Pow10(_)
Pow10(k) == IF k = 0 THEN 1 ELSE 10 * Pow10(k - 1)

\* parseFloat of a run of digits and dots: digits, one dot, digits; NaN when
\* there is no digit on either side of the first dot.
ParseFloatChars(cs) ==
  LET ie   == SkipDigits(cs, 1)
      dot  == ie <= Len(cs) /\ cs[ie] = "."
      fe   == IF dot THEN SkipDigits(cs, ie + 1) ELSE ie + 1
      ints == SubSeq(cs, 1, ie - 1)
      frac == IF dot THEN SubSeq(cs, ie + 1, fe - 1) ELSE <<>>
  IN  IF ints = <<>> /\ frac = <<>> THEN NaN
      ELSE Rat(DecValue(ints) * Pow10(Len(frac)) + DecValue(frac), Pow10(Len(frac)))

\* Math.round(c * 255).toString(16).padStart(2, '0'); NaN prints as "NaN"
Channel255(c) ==
  IF c.nan THEN "NaN" ELSE PadStart2(ToString16(RoundMul(c.n, 255, c.d)))

hue2rgb(p, q, t0) ==
  LET t1 == IF RLt(t0, Rat(0, 1)) THEN RAdd(t0, Rat(1, 1)) ELSE t0
      t  == IF RGt(t1, Rat(1, 1)) THEN RSub(t1, Rat(1, 1)) ELSE t1
  IN  IF RLt(t, Rat(1, 6)) THEN RAdd(p, RMul(RMul(RSub(q, p), Rat(6, 1)), t))
      ELSE IF RLt(t, Rat(1, 2)) THEN q
      ELSE IF RLt(t, Rat(2, 3))
           THEN RAdd(p, RMul(RMul(RSub(q, p), RSub(Rat(2, 3), t)), Rat(6, 1)))
      ELSE p

hslToHex(h, s, l) ==
  LET one == Rat(1, 1)
      q   == IF RLt(l, Rat(1, 2)) THEN RMul(l, RAdd(one, s))
             ELSE RSub(RAdd(l, s), RMul(l, s))
      p   == RSub(RMul(Rat(2, 1), l), q)
      r   == IF s = Rat(0, 1) THEN l ELSE hue2rgb(p, q, RAdd(h, Rat(1, 3)))
      g   == IF s = Rat(0, 1) THEN l ELSE hue2rgb(p, q, h)
      b   == IF s = Rat(0, 1) THEN l ELSE hue2rgb(p, q, RSub(h, Rat(1, 3)))
  IN  "#" \o Channel255(r) \o Channel255(g) \o Channel255(b)


(***************************************************************************)
(* rgbaToHex                                                               *)
(***************************************************************************)
NoMatch == [ok |-> FALSE, a |-> <<>>, b |-> <<>>, c |-> <<>>]

\* /rgba?\(\s*(\d+)\s*,\s*(\d+)\s*,\s*(\d+)/ tried at position i of cs
MatchRgbAt(cs, i) ==
  LET n  == Len(cs)
      a0 == i + 3
      lp == IF a0 <= n /\ cs[a0] = "a" THEN a0 + 1 ELSE a0
      b1 == SkipSpaces(cs, lp + 1)
      e1 == SkipDigits(cs, b1)
      c1 == SkipSpaces(cs, e1)
      b2 == SkipSpaces(cs, c1 + 1)
      e2 == SkipDigits(cs, b2)
      c2 == SkipSpaces(cs, e2)
      b3 == SkipSpaces(cs, c2 + 1)
      e3 == SkipDigits(cs, b3)
  IN  IF /\ StartsWithAt(cs, i, <<"r", "g", "b">>)
         /\ lp <= n /\ cs[lp] = "("
         /\ e1 > b1 /\ c1 <= n /\ cs[c1] = ","
         /\ e2 > b2 /\ c2 <= n /\ cs[c2] = ","
         /\ e3 > b3
      THEN [ok |-> TRUE, a |-> SubSeq(cs, b1, e1 - 1), b |-> SubSeq(cs, b2, e2 - 1),
            c |-> SubSeq(cs, b3, e3 - 1)]
      ELSE NoMatch

RECURSIVE SkipFloatChars(_, _)
\* [\d.]+
SkipFloatChars(cs, i) ==
  IF i <= Len(cs) /\ (IsDigit(cs[i]) \/ cs[i] = ".") THEN SkipFloatChars(cs, i + 1) ELSE i

\* /hsla?\(\s*([\d.]+)\s*,\s*([\d.]+)%\s*,\s*([\d.]+)%/ tried at position i of cs
MatchHslAt(cs, i) ==
  LET n  == Len(cs)
      a0 == i + 3
      lp == IF a0 <= n /\ cs[a0] = "a" THEN a0 + 1 ELSE a0
      b1 == SkipSpaces(cs, lp + 1)
      e1 == SkipFloatChars(cs, b1)
      c1 == SkipSpaces(cs, e1)
      b2 == SkipSpaces(cs, c1 + 1)
      e2 == SkipFloatChars(cs, b2)
      c2 == SkipSpaces(cs, e2 + 1)
      b3 == SkipSpaces(cs, c2 + 1)
      e3 == SkipFloatChars(cs, b3)
  IN  IF /\ StartsWithAt(cs, i, <<"h", "s", "l">>)
         /\ lp <= n /\ cs[lp] = "("
         /\ e1 > b1 /\ c1 <= n /\ cs[c1] = ","
         /\ e2 > b2 /\ e2 <= n /\ cs[e2] = "%" /\ c2 <= n /\ cs[c2] = ","
         /\ e3 > b3 /\ e3 <= n /\ cs[e3] = "%"
      THEN [ok |-> TRUE, a |-> SubSeq(cs, b1, e1 - 1), b |-> SubSeq(cs, b2, e2 - 1),
            c |-> SubSeq(cs, b3, e3 - 1)]
      ELSE NoMatch

RECURSIVE FirstRgbMatch(_, _)
\* String.prototype.match: the leftmost position where the pattern matches
FirstRgbMatch(cs, i) ==
  IF i > Len(cs) THEN NoMatch
  ELSE IF MatchRgbAt(cs, i).ok THEN MatchRgbAt(cs, i)
  ELSE FirstRgbMatch(cs, i + 1)

RECURSIVE FirstHslMatch(_, _)
FirstHslMatch(cs, i) ==
  IF i > Len(cs) THEN NoMatch
  ELSE IF MatchHslAt(cs, i).ok THEN MatchHslAt(cs, i)
  ELSE FirstHslMatch(cs, i + 1)

namedColors ==
  [name \in {"white", "black", "red", "green", "blue", "yellow", "cyan", "magenta",
             "orange", "purple", "pink", "gray", "grey", "navy", "teal", "maroon",
             "lime", "aqua", "silver", "olive", "coral", "salmon", "tomato", "gold",
             "indigo", "violet", "rebeccapurple", "crimson", "darkblue", "darkgreen",
             "steelblue", "slategray", "dodgerblue", "royalblue", "midnightblue"} |->
     CASE name = "white" -> "#FFFFFF" [] name = "black" -> "#000000"
       [] name = "red" -> "#FF0000" [] name = "green" -> "#008000"
       [] name = "blue" -> "#0000FF" [] name = "yellow" -> "#FFFF00"
       [] name = "cyan" -> "#00FFFF" [] name = "magenta" -> "#FF00FF"
       [] name = "orange" -> "#FFA500" [] name = "purple" -> "#800080"
       [] name = "pink" -> "#FFC0CB" [] name = "gray" -> "#808080"
       [] name = "grey" -> "#808080" [] name = "navy" -> "#000080"
       [] name = "teal" -> "#008080" [] name = "maroon" -> "#800000"
       [] name = "lime" -> "#00FF00" [] name = "aqua" -> "#00FFFF"
       [] name = "silver" -> "#C0C0C0" [] name = "olive" -> "#808000"
       [] name = "coral" -> "#FF7F50" [] name = "salmon" -> "#FA8072"
       [] name = "tomato" -> "#FF6347" [] name = "gold" -> "#FFD700"
       [] name = "indigo" -> "#4B0082" [] name = "violet" -> "#EE82EE"
       [] name = "rebeccapurple" -> "#663399" [] name = "crimson" -> "#DC143C"
       [] name = "darkblue" -> "#00008B" [] name = "darkgreen" -> "#006400"
       [] name = "steelblue" -> "#4682B4" [] name = "slategray" -> "#708090"
       [] name = "dodgerblue" -> "#1E90FF" [] name = "royalblue" -> "#4169E1"
       [] name = "midnightblue" -> "#191970"]

\* namedColors is an object literal: a lower-cased key that names a property
\* inherited from Object.prototype reads a truthy value that is not a string.
InheritedKeys == {"constructor", "__proto__"}
NonString == "<non-string>"

\* parseInt(c).toString(16).padStart(2, '0') of a run of decimal digits
DecToHex2(ds) == PadStart2(ToString16(DecValue(ds)))

\* color is a nullable string (null and undefined are Null)
rgbaToHex(color) ==
  IF ~Truthy(color) THEN "#0066FF"
  ELSE
    LET trimmed == TrimChars(Chars(color[1]))
        rgbMatch == FirstRgbMatch(trimmed, 1)
        hslMatch == FirstHslMatch(trimmed, 1)
        lower == ToLowerCase(Join(trimmed))
    IN  IF StartsWithAt(trimmed, 1, <<"#">>)
        THEN IF Len(trimmed) = 4
             THEN Join(<<"#", trimmed[2], trimmed[2], trimmed[3], trimmed[3],
                         trimmed[4], trimmed[4]>>)
             ELSE Join(SliceTo(trimmed, 7))
        ELSE IF rgbMatch.ok
        THEN "#" \o DecToHex2(rgbMatch.a) \o DecToHex2(rgbMatch.b) \o DecToHex2(rgbMatch.c)
        ELSE IF hslMatch.ok
        THEN hslToHex(RMul(ParseFloatChars(hslMatch.a), Rat(1, 360)),
                      RMul(ParseFloatChars(hslMatch.b), Rat(1, 100)),
                      RMul(ParseFloatChars(hslMatch.c), Rat(1, 100)))
        ELSE IF lower \in DOMAIN namedColors THEN namedColors[lower]
        ELSE IF lower \in InheritedKeys THEN NonString
        ELSE "#0066FF"

(***************************************************************************)
(* darkenHex, detectTheme                                                  *)
(***************************************************************************)
Substring(str, from, to) ==
  LET n == Len(str)
      a == IF from > n THEN n ELSE from
      b == IF to > n THEN n ELSE to
  IN  SubSeq(str, a + 1, b)

\* factor is the fraction num/den
darkenHex(hex, num, den) ==
  IF Len(hex) = 0 \/ SubSeq(hex, 1, 1) # "#" \/ Len(hex) < 7 THEN "#003D99"
  ELSE
    LET clean == SubSeq(hex, 2, Len(hex))
        r == ParseIntHex(Substring(clean, 0, 2))
        g == ParseIntHex(Substring(clean, 2, 4))
        b == ParseIntHex(Substring(clean, 4, 6))
        Ch(c) == PadStart2(ToString16(RoundMul(c.v, num, den)))
    IN  IF ~r.ok \/ ~g.ok \/ ~b.ok THEN "#003D99"
        ELSE "#" \o Ch(r) \o Ch(g) \o Ch(b)

\* the threshold read as "at least 128" instead of "above 128"
detectThemeAtLeast(colors) ==
  LET bgColor == colors.background
  IN  IF Len(bgColor) = 0 \/ SubSeq(bgColor, 1, 1) # "#" \/ Len(bgColor) < 7 THEN "light"
      ELSE
        LET rgb == ParseIntHex(SubSeq(bgColor, 2, Len(bgColor)))
            r == (rgb.v \div 65536) % 256
            g == (rgb.v \div 256) % 256
            b == rgb.v % 256
        IN  IF ~rgb.ok THEN "light"
            ELSE IF 299 * r + 587 * g + 114 * b >= 128000 THEN "light" ELSE "dark"

detectTheme(colors) ==
  LET bgColor == colors.background
  IN  IF Len(bgColor) = 0 \/ SubSeq(bgColor, 1, 1) # "#" \/ Len(bgColor) < 7 THEN "light"
      ELSE
        LET rgb == ParseIntHex(SubSeq(bgColor, 2, Len(bgColor)))
            r == (rgb.v \div 65536) % 256
            g == (rgb.v \div 256) % 256
            b == rgb.v % 256
        IN  IF ~rgb.ok THEN "light"
            ELSE IF 299 * r + 587 * g + 114 * b > 128000 THEN "light" ELSE "dark"


(***************************************************************************)
(* Inputs and the outside world                                            *)
(***************************************************************************)
\* new URL(href): the page URLs a run is given, with what the URL parser
\* makes of each (valid = FALSE: the constructor throws a TypeError).
Urls ==
  { [href |-> "https://www.example.com/docs", valid |-> TRUE,
     hostname |-> "www.example.com", origin |-> "https://www.example.com"],
    [href |-> "https://docs.acme.dev/start", valid |-> TRUE,
     hostname |-> "docs.acme.dev", origin |-> "https://docs.acme.dev"],
    [href |-> "not a url", valid |-> FALSE, hostname |-> "", origin |-> ""] }

ParseUrl(href) == CHOOSE u \in Urls : u.href = href

\* the domains a direct caller of extractLogoFromCloud passes
Domains == {"example.com", "docs.acme.dev"}

RECURSIVE IndexOf(_, _, _)
\* first index >= i where pat occurs in cs, 0 if none
IndexOf(cs, pat, i) ==
  IF i + Len(pat) - 1 > Len(cs) THEN 0
  ELSE IF StartsWithAt(cs, i, pat) THEN i
  ELSE IndexOf(cs, pat, i + 1)

\* String.prototype.replace(pat, rep) with a string pattern: the first occurrence
Replace(str, pat, rep) ==
  LET k == IndexOf(Chars(str), Chars(pat), 1)
  IN  IF k = 0 THEN str
      ELSE SubSeq(str, 1, k - 1) \o rep \o SubSeq(str, k + Len(pat), Len(str))

EndsWith(str, suf) ==
  Len(suf) <= Len(str) /\ SubSeq(str, Len(str) - Len(suf) + 1, Len(str)) = suf

\* String.prototype.includes
Includes(str, pat) == IndexOf(Chars(str), Chars(pat), 1) # 0

\* the keyword sets with the first and the last entry exchanged
industriesGamingFirst ==
  << [industry |-> "gaming", keywords |-> {"game", "play", "gaming", "esports", "player"}],
     [industry |-> "finance",
      keywords |-> {"bank", "payment", "finance", "invest", "trading", "crypto"}],
     [industry |-> "healthcare",
      keywords |-> {"health", "medical", "doctor", "patient", "clinic", "hospital"}],
     [industry |-> "ecommerce",
      keywords |-> {"shop", "store", "buy", "product", "marketplace", "retail"}],
     [industry |-> "education",
      keywords |-> {"learn", "course", "education", "student", "training", "teach"}],
     [industry |-> "marketing",
      keywords |-> {"marketing", "advertising", "campaign", "brand", "social media"}],
     [industry |-> "tech",
      keywords |-> {"software", "app", "platform", "cloud", "saas", "api", "developer",
                    "documentation", "framework", "library", "tutorial"}] >>

\* Object.entries(industries): the entries in the order of the literal
industries ==
  << [industry |-> "tech",
      keywords |-> {"software", "app", "platform", "cloud", "saas", "api", "developer",
                    "documentation", "framework", "library", "tutorial"}],
     [industry |-> "finance",
      keywords |-> {"bank", "payment", "finance", "invest", "trading", "crypto"}],
     [industry |-> "healthcare",
      keywords |-> {"health", "medical", "doctor", "patient", "clinic", "hospital"}],
     [industry |-> "ecommerce",
      keywords |-> {"shop", "store", "buy", "product", "marketplace", "retail"}],
     [industry |-> "education",
      keywords |-> {"learn", "course", "education", "student", "training", "teach"}],
     [industry |-> "marketing",
      keywords |-> {"marketing", "advertising", "campaign", "brand", "social media"}],
     [industry |-> "gaming", keywords |-> {"game", "play", "gaming", "esports", "player"}] >>

RECURSIVE IndustryFrom(_, _)
\* the for loop of inferIndustry from entry k on
IndustryFrom(text, k) ==
  IF k > Len(industries) THEN "general"
  ELSE IF \E keyword \in industries[k].keywords : Includes(text, keyword)
       THEN industries[k].industry
       ELSE IndustryFrom(text, k + 1)

inferIndustry(title, description) ==
  LET text == ToLowerCase(title \o " " \o description)
  IN  IndustryFrom(text, 1)

\* What one axios.head probe can meet.  axios resolves on a 2xx status and
\* rejects on any other status, on a timeout and on a network error.
ProbeOutcomes == {"200", "204", "404", "timeout", "network error"}

ProbeClass(o) ==
  IF o = "200" THEN "200" ELSE IF o = "204" THEN "non200" ELSE "threw"

\* The warnings array a caller of extractLogoFromCloud / extractBranding hands in
CallerWarnings == {<<>>, <<"earlier warning">>}

(***************************************************************************)
(* State                                                                   *)
(***************************************************************************)
VARIABLES
  entry,      \* the exported function this run calls
  url,        \* its url argument (href)
  pc,         \* position in the entry function
  outcome,    \* "running", "returned" or "raised"
  warnings,   \* the warnings array of the request
  domain,     \* const domain of extractUrlContent / extractDocsContent
  lpc,        \* position in extractLogoFromCloud
  ldomain,    \* its domain argument
  li,         \* index of the common path probed next
  probes,     \* the probes this call of extractLogoFromCloud has made so far
  lw0,        \* the warnings array as it was when extractLogoFromCloud was called
  lres,       \* the value extractLogoFromCloud returned
  branding,   \* the BrandingResult (Null until built)
  baseline,   \* the palette extractColorsFromScreenshot gave for this branding
  css,        \* the CSS signals of the page as the browser session saw them
  pwColors,   \* playwrightResult.cssColors of extractUrlContent
  content,    \* source of the content / markdown (Null until known)
  extractionMethod,
  screenshots,
  leaked,     \* browsers launched and never closed
  callee,     \* the codec function a direct call applies ("none" in other runs)
  input,      \* its argument
  factor,     \* the factor of darkenHex, as <<numerator, denominator>>
  output,     \* the value it returned
  output2     \* rgbaToHex applied to the value rgbaToHex returned

vars == <<entry, url, pc, outcome, warnings, domain, lpc, ldomain, li, probes, lw0,
          lres, branding, baseline, css, pwColors, content, extractionMethod,
          screenshots, leaked, callee, input, factor, output, output2>>

logoVars == <<lpc, ldomain, li, probes, lw0, lres>>
codecVars == <<callee, input, factor, output, output2>>
topVars == <<codecVars, entry, url, pc, outcome, domain, branding, baseline, css, pwColors, content,
             extractionMethod, screenshots, leaked>>

NoLogo == [url |-> "", quality |-> ""]
NoCss == [primary |-> Null, accent |-> Null, buttonBg |-> Null, linkColor |-> Null]

(***************************************************************************)
(* extractLogoFromCloud                                                    *)
(***************************************************************************)
ClearbitUrl(d) == "https://logo.clearbit.com/" \o d

commonPaths(origin) ==
  << origin \o "/logo.svg", origin \o "/logo.png",
     origin \o "/assets/logo.svg", origin \o "/assets/logo.png",
     origin \o "/images/logo.svg", origin \o "/images/logo.png" >>

FaviconUrl(d) == "https://www.google.com/s2/favicons?domain=" \o d \o "&sz=256"

FaviconWarning(d) ==
  "No high-quality logo found for " \o d \o ". Using Google favicon (256px)."

\* the state in which extractLogoFromCloud(d, url, warnings) has just been called
CallLogo(d) ==
  /\ lpc' = "clearbit"
  /\ ldomain' = d
  /\ li' = 1
  /\ probes' = <<>>
  /\ lw0' = warnings'
  /\ lres' = NoLogo

\* the caller has taken the returned value: the frame of the call is gone
ReturnLogo ==
  /\ lpc' = "idle"
  /\ probes' = <<>>
  /\ UNCHANGED <<ldomain, li, lw0, lres>>

\* Strategy 1 without its early return: a 200 is recorded and the common
\* paths are tried all the same
LogoClearbitFallsThrough ==
  /\ lpc = "clearbit"
  /\ \E o \in ProbeOutcomes :
       /\ probes' = Append(probes, [url |-> ClearbitUrl(ldomain), result |-> ProbeClass(o)])
       /\ lres' = IF o = "200" THEN [url |-> ClearbitUrl(ldomain), quality |-> "high"]
                  ELSE lres
       /\ lpc' = IF ParseUrl(url).valid THEN "paths" ELSE "raised"
  /\ UNCHANGED <<ldomain, li, lw0, warnings>>
  /\ UNCHANGED topVars

\* Strategy 1, and on its failure the computation of origin and commonPaths
LogoClearbit ==
  /\ lpc = "clearbit"
  /\ \E o \in ProbeOutcomes :
       /\ probes' = Append(probes, [url |-> ClearbitUrl(ldomain), result |-> ProbeClass(o)])
       /\ IF o = "200"
          THEN /\ lres' = [url |-> ClearbitUrl(ldomain), quality |-> "high"]
               /\ lpc' = "ret"
          ELSE /\ lres' = lres
               /\ lpc' = IF ParseUrl(url).valid THEN "paths" ELSE "raised"
  /\ UNCHANGED <<ldomain, li, lw0, warnings>>
  /\ UNCHANGED topVars

\* Strategy 2 without its early return: the loop goes on after a 200, so the
\* last path that answers 200 wins
LogoPathKeepsLooking ==
  /\ lpc = "paths"
  /\ \E o \in ProbeOutcomes :
       LET logoPath == commonPaths(ParseUrl(url).origin)[li]
           last == li >= Len(commonPaths(ParseUrl(url).origin))
       IN  /\ probes' = Append(probes, [url |-> logoPath, result |-> ProbeClass(o)])
           /\ lres' = IF o = "200" THEN [url |-> logoPath, quality |-> "medium"] ELSE lres
           /\ lpc' = IF ~last THEN "paths"
                     ELSE IF lres'.quality = "medium" THEN "ret" ELSE "favicon"
           /\ li' = li + 1
  /\ UNCHANGED <<ldomain, lw0, warnings>>
  /\ UNCHANGED topVars

\* Strategy 2 with one retry: a path whose probe timed out is asked once more
LogoPathRetries ==
  /\ lpc = "paths"
  /\ \E o \in ProbeOutcomes :
       LET logoPath == commonPaths(ParseUrl(url).origin)[li]
           again == o = "timeout" /\ probes[Len(probes)].url # logoPath
       IN  /\ probes' = Append(probes, [url |-> logoPath, result |-> ProbeClass(o)])
           /\ IF o = "200"
              THEN /\ lres' = [url |-> logoPath, quality |-> "medium"]
                   /\ lpc' = "ret"
                   /\ li' = li
              ELSE /\ lres' = lres
                   /\ lpc' = IF again \/ li < Len(commonPaths(ParseUrl(url).origin))
                             THEN "paths" ELSE "favicon"
                   /\ li' = IF again THEN li ELSE li + 1
  /\ UNCHANGED <<ldomain, lw0, warnings>>
  /\ UNCHANGED topVars

\* Strategy 2 handing out a common path under the quality of the brand API
LogoPathAsHigh ==
  /\ lpc = "paths"
  /\ \E o \in ProbeOutcomes :
       LET logoPath == commonPaths(ParseUrl(url).origin)[li]
       IN  /\ probes' = Append(probes, [url |-> logoPath, result |-> ProbeClass(o)])
           /\ IF o = "200"
              THEN /\ lres' = [url |-> logoPath, quality |-> "high"]
                   /\ lpc' = "ret"
                   /\ li' = li
              ELSE /\ lres' = lres
                   /\ lpc' = IF li < Len(commonPaths(ParseUrl(url).origin))
                             THEN "paths" ELSE "favicon"
                   /\ li' = li + 1
  /\ UNCHANGED <<ldomain, lw0, warnings>>
  /\ UNCHANGED topVars

\* Strategy 2: one turn of the loop over commonPaths
LogoPath ==
  /\ lpc = "paths"
  /\ \E o \in ProbeOutcomes :
       LET logoPath == commonPaths(ParseUrl(url).origin)[li]
       IN  /\ probes' = Append(probes, [url |-> logoPath, result |-> ProbeClass(o)])
           /\ IF o = "200"
              THEN /\ lres' = [url |-> logoPath, quality |-> "medium"]
                   /\ lpc' = "ret"
                   /\ li' = li
              ELSE /\ lres' = lres
                   /\ lpc' = IF li < Len(commonPaths(ParseUrl(url).origin))
                             THEN "paths" ELSE "favicon"
                   /\ li' = li + 1
  /\ UNCHANGED <<ldomain, lw0, warnings>>
  /\ UNCHANGED topVars

\* Strategy 3 without the push of its warning
LogoFaviconSilent ==
  /\ lpc = "favicon"
  /\ warnings' = warnings
  /\ lres' = [url |-> FaviconUrl(ldomain), quality |-> "favicon"]
  /\ lpc' = "ret"
  /\ UNCHANGED <<ldomain, li, probes, lw0>>
  /\ UNCHANGED topVars

\* Strategy 3 writing its warning to a log of its own, put in place of the caller's
LogoFaviconOwnLog ==
  /\ lpc = "favicon"
  /\ warnings' = <<FaviconWarning(ldomain)>>
  /\ lres' = [url |-> FaviconUrl(ldomain), quality |-> "favicon"]
  /\ lpc' = "ret"
  /\ UNCHANGED <<ldomain, li, probes, lw0>>
  /\ UNCHANGED topVars

\* Strategy 3
LogoFavicon ==
  /\ lpc = "favicon"
  /\ warnings' = Append(warnings, FaviconWarning(ldomain))
  /\ lres' = [url |-> FaviconUrl(ldomain), quality |-> "favicon"]
  /\ lpc' = "ret"
  /\ UNCHANGED <<ldomain, li, probes, lw0>>
  /\ UNCHANGED topVars

\* a direct call of extractLogoFromCloud ends
LogoDone ==
  /\ entry = "logo" /\ pc = "call"
  /\ lpc \in {"ret", "raised"}
  /\ pc' = "done"
  /\ outcome' = IF lpc = "ret" THEN "returned" ELSE "raised"
  /\ UNCHANGED <<codecVars, entry, url, domain, branding, baseline, css, pwColors, content,
                 extractionMethod, screenshots, leaked, warnings>>
  /\ UNCHANGED logoVars


(***************************************************************************)
(* The browser: takeScreenshot and the page's CSS signals                  *)
(***************************************************************************)
\* How one call of takeScreenshot can end.  launch, newContext and newPage
\* run before the try block, goto and screenshot inside it.
ShotOutcomes ==
  {"ok", "launch failed", "newContext failed", "goto timeout", "screenshot failed"}

takeScreenshot(o) ==
  [ok |-> o = "ok", closed |-> o \in {"ok", "goto timeout", "screenshot failed"},
   launched |-> o # "launch failed"]

LeakOf(o) == IF takeScreenshot(o).launched /\ ~takeScreenshot(o).closed THEN 1 ELSE 0

DefaultPalette ==
  [primary |-> "#0066FF", secondary |-> "#003D99", accent |-> "#66B3FF",
   background |-> "#FFFFFF"]

\* extractColorsFromScreenshot: the palettes the extractor gives for the
\* screenshots of the model (a blank image gives the default palette).
Palettes ==
  { DefaultPalette,
    [primary |-> "#ff6600", secondary |-> "#112233", accent |-> "#00cc88",
     background |-> "#1a1a1a"] }

RECURSIVE tryProps(_)
\* vals: getPropertyValue(name) for each name of the list, in order
tryProps(vals) ==
  IF vals = <<>> THEN Null
  ELSE LET val == Join(TrimChars(Chars(Head(vals))))
       IN  IF val # "" THEN Some(val) ELSE tryProps(Tail(vals))

RECURSIVE FirstButtonBg(_)
\* bgs: the computed backgroundColor of the (first ten) buttons, in order
FirstButtonBg(bgs) ==
  IF bgs = <<>> THEN Null
  ELSE IF /\ Head(bgs) # "" /\ Head(bgs) # "rgba(0, 0, 0, 0)"
          /\ Head(bgs) # "transparent" /\ Head(bgs) # "rgb(255, 255, 255)"
       THEN Some(Head(bgs))
       ELSE FirstButtonBg(Tail(bgs))

RECURSIVE FirstLinkColor(_)
\* cols: the computed color of the (first ten) links, in order
FirstLinkColor(cols) ==
  IF cols = <<>> THEN Null
  ELSE IF /\ Head(cols) # "" /\ Head(cols) # "rgb(0, 0, 0)"
          /\ Head(cols) # "rgb(255, 255, 255)"
       THEN Some(Head(cols))
       ELSE FirstLinkColor(Tail(cols))

\* The pages of the model: the values of the custom properties the code asks
\* for, and the computed colours of the page's buttons and links.
Pages ==
  [ primaryProps : {<<"", "">>, <<"", " rgb(10,20,30)">>, <<"#abcd", "">>},
    accentProps  : {<<"">>, <<"coral">>},
    buttons      : {<<"rgb(255, 255, 255)">>, <<"rgba(0, 0, 0, 0)", "rgb(255, 102, 0)">>},
    links        : {<<>>, <<"rgb(0, 0, 0)", "rgb(0, 0, 238)">>} ]

\* what the page holds, which is what a successful page.evaluate can see
SignalsOf(page) ==
  [primary   |-> tryProps(page.primaryProps),
   accent    |-> tryProps(page.accentProps),
   buttonBg  |-> FirstButtonBg(page.buttons),
   linkColor |-> FirstLinkColor(page.links)]

\* a || b on nullable strings
OrElse(a, b) == IF Truthy(a) THEN a ELSE b

\* the signals the pages of the model hold
PageSignals == {SignalsOf(page) : page \in Pages} \cup {NoCss}

\* rgbaToHex, worked out once for each colour string a page of the model holds
hexOf ==
  [color \in UNION {{s.primary, s.accent, s.buttonBg, s.linkColor} : s \in PageSignals}
     |-> rgbaToHex(color)]

(***************************************************************************)
(* Colour refinement                                                       *)
(***************************************************************************)
\* extractWithPlaywright: resolvedPrimary, resolvedAccent and colorResult
\* (Null, or Some of the record {primary, accent})
ResolveCssColors(sig) ==
  LET resolvedPrimary ==
        IF Truthy(sig.primary) THEN Some(hexOf[sig.primary])
        ELSE IF Truthy(sig.buttonBg) THEN Some(hexOf[sig.buttonBg])
        ELSE IF Truthy(sig.linkColor) THEN Some(hexOf[sig.linkColor])
        ELSE Null
      resolvedAccent ==
        IF Truthy(sig.accent) THEN Some(hexOf[sig.accent]) ELSE Null
  IN  IF Truthy(resolvedPrimary) \/ Truthy(resolvedAccent)
      THEN Some([primary |-> resolvedPrimary, accent |-> resolvedAccent])
      ELSE Null

\* the CSS colours applied to a fresh default palette, not to the extracted one
RefineUrlFromDefaults(colors, cssColors) ==
  IF cssColors = Null THEN colors
  ELSE
    LET c  == cssColors[1]
        c1 == IF Truthy(c.primary)
              THEN [DefaultPalette EXCEPT !.primary = c.primary[1],
                                          !.secondary = darkenHex(c.primary[1], 3, 5)]
              ELSE colors
    IN  IF Truthy(c.accent) THEN [c1 EXCEPT !.accent = c.accent[1]] ELSE c1

\* the CSS colours applied, and the background reset to white with the primary
RefineUrlResetsBackground(colors, cssColors) ==
  IF cssColors = Null THEN colors
  ELSE
    LET c  == cssColors[1]
        c1 == IF Truthy(c.primary)
              THEN [colors EXCEPT !.primary = c.primary[1],
                                  !.secondary = darkenHex(c.primary[1], 3, 5),
                                  !.background = "#FFFFFF"]
              ELSE colors
    IN  IF Truthy(c.accent) THEN [c1 EXCEPT !.accent = c.accent[1]] ELSE c1

\* extractUrlContent: the two places that apply playwrightResult.cssColors
RefineUrl(colors, cssColors) ==
  IF cssColors = Null THEN colors
  ELSE
    LET c  == cssColors[1]
        c1 == IF Truthy(c.primary)
              THEN [colors EXCEPT !.primary = c.primary[1],
                                  !.secondary = darkenHex(c.primary[1], 3, 5)]
              ELSE colors
    IN  IF Truthy(c.accent) THEN [c1 EXCEPT !.accent = c.accent[1]] ELSE c1

\* extractBrandingWithCssColors: what its page.evaluate returns
DocsCssColors(sig) ==
  [primary |-> OrElse(sig.primary, sig.buttonBg), accent |-> sig.accent]

\* the override without the recomputation of secondary
RefineDocsKeepsSecondary(colors, cssColors) ==
  LET c1 == IF Truthy(cssColors.primary)
            THEN [colors EXCEPT !.primary = hexOf[cssColors.primary]]
            ELSE colors
  IN  IF Truthy(cssColors.accent)
      THEN [c1 EXCEPT !.accent = hexOf[cssColors.accent]]
      ELSE c1

\* the override with the accent taken only when there is no CSS primary
RefineDocsAccentElse(colors, cssColors) ==
  IF Truthy(cssColors.primary)
  THEN [colors EXCEPT !.primary = hexOf[cssColors.primary],
                      !.secondary = darkenHex(hexOf[cssColors.primary], 3, 5)]
  ELSE IF Truthy(cssColors.accent)
       THEN [colors EXCEPT !.accent = hexOf[cssColors.accent]]
       ELSE colors

\* extractBrandingWithCssColors: override screenshot colours with CSS colours
RefineDocs(colors, cssColors) ==
  LET c1 == IF Truthy(cssColors.primary)
            THEN [colors EXCEPT !.primary = hexOf[cssColors.primary],
                                !.secondary = darkenHex(hexOf[cssColors.primary], 3, 5)]
            ELSE colors
  IN  IF Truthy(cssColors.accent)
      THEN [c1 EXCEPT !.accent = hexOf[cssColors.accent]]
      ELSE c1

(***************************************************************************)
(* extractBranding                                                         *)
(***************************************************************************)
Raise ==
  /\ pc' = "done"
  /\ outcome' = "raised"

BrandingStart ==
  /\ entry = "branding" /\ pc = "start"
  /\ IF ParseUrl(url).valid
     THEN /\ pc' = "logo"
          /\ outcome' = outcome
          /\ warnings' = warnings
          /\ CallLogo(Replace(ParseUrl(url).hostname, "www.", ""))
     ELSE /\ Raise
          /\ UNCHANGED warnings
          /\ UNCHANGED logoVars
  /\ UNCHANGED <<codecVars, entry, url, domain, branding, baseline, css, pwColors, content,
                 extractionMethod, screenshots, leaked>>

BrandingScreenshot ==
  /\ entry = "branding" /\ pc = "logo" /\ lpc = "ret"
  /\ \E o \in ShotOutcomes, colors \in Palettes :
       /\ leaked' = leaked + LeakOf(o)
       /\ IF takeScreenshot(o).ok
          THEN /\ baseline' = Some(colors)
               /\ branding' =
                    Some([logo |-> [url |-> lres.url, quality |-> lres.quality,
                                    staticPath |-> Null],
                          colors |-> colors,
                          font |-> "system-ui, -apple-system, sans-serif",
                          theme |-> detectTheme(colors)])
               /\ pc' = "done"
               /\ outcome' = "returned"
          ELSE /\ Raise
               /\ UNCHANGED <<baseline, branding>>
  /\ ReturnLogo
  /\ UNCHANGED <<codecVars, entry, url, domain, css, pwColors, content, extractionMethod, screenshots,
                 warnings>>


(***************************************************************************)
(* downloadLogoToPublic                                                    *)
(***************************************************************************)
\* .replace(/[^a-z0-9.-]/g, '')
CleanChars(str) ==
  LET keep == {"a","b","c","d","e","f","g","h","i","j","k","l","m","n","o","p","q",
               "r","s","t","u","v","w","x","y","z","0","1","2","3","4","5","6","7",
               "8","9",".","-"}
  IN  Join(SelectSeq(Chars(str), LAMBDA c : c \in keep))

\* how the GET of the logo and the write of the file can end
Downloads ==
  { [ok |-> FALSE, contentType |-> ""],
    [ok |-> TRUE, contentType |-> "image/png"],
    [ok |-> TRUE, contentType |-> ""] }

\* the returned static path ('' on any failure)
downloadLogoToPublic(logoUrl, dom, d) ==
  IF logoUrl = "" \/ ~d.ok THEN ""
  ELSE
    LET ext == IF Includes(d.contentType, "svg") THEN "svg"
               ELSE IF Includes(d.contentType, "jpeg") \/ Includes(d.contentType, "jpg")
                    THEN "jpg"
               ELSE IF EndsWith(logoUrl, ".svg") THEN "svg"
               ELSE IF EndsWith(logoUrl, ".jpg") \/ EndsWith(logoUrl, ".jpeg") THEN "jpg"
               ELSE "png"
        cleanDomain == CleanChars(Replace(dom, "www.", ""))
    IN  "images/logo-" \o cleanDomain \o "." \o ext

LogoDownloadWarning ==
  "Logo download failed. Use branding.logo.url as fallback in Generated.tsx."

\* the download step writing whatever path came back, the empty one too,
\* and pushing no warning
DownloadAndReturnAlwaysSets ==
  \E d \in Downloads :
    LET b == branding[1]
        logoStaticPath == downloadLogoToPublic(b.logo.url, domain, d)
    IN  /\ branding' = Some([b EXCEPT !.logo.staticPath = Some(logoStaticPath)])
        /\ warnings' = warnings
        /\ pc' = "done"
        /\ outcome' = "returned"

\* "Download logo" of extractUrlContent and of extractDocsContent, and the return
DownloadAndReturn ==
  \E d \in Downloads :
    LET b == branding[1]
        logoStaticPath == downloadLogoToPublic(b.logo.url, domain, d)
    IN  /\ IF logoStaticPath # ""
           THEN /\ branding' = Some([b EXCEPT !.logo.staticPath = Some(logoStaticPath)])
                /\ warnings' = warnings
           ELSE /\ branding' = branding
                /\ warnings' = Append(warnings, LogoDownloadWarning)
        /\ pc' = "done"
        /\ outcome' = "returned"

(***************************************************************************)
(* extractUrlContent                                                       *)
(***************************************************************************)
\* what the single Playwright session of extractWithPlaywright can meet
PageContents ==
  { [title |-> FALSE, desc |-> FALSE, list |-> FALSE],
    [title |-> TRUE, desc |-> TRUE, list |-> TRUE],
    [title |-> TRUE, desc |-> FALSE, list |-> FALSE] }

\* Every page with full text and all screenshots taken; every text, with
\* page.evaluate and the screenshots failing or not, on one page; and the
\* session that fails as a whole (launch, newPage, goto, title, mkdir).
PlaywrightEnvs ==
  [ failed : {FALSE}, text : {[title |-> TRUE, desc |-> TRUE, list |-> TRUE]},
    evalOk : {TRUE}, page : Pages, shotsOk : {TRUE} ]
  \cup
  [ failed : {FALSE}, text : PageContents, evalOk : BOOLEAN,
    page : {CHOOSE pg \in Pages : TRUE}, shotsOk : BOOLEAN ]
  \cup
  [ failed : {TRUE}, text : {CHOOSE x \in PageContents : ~x.title}, evalOk : {FALSE},
    page : {CHOOSE pg \in Pages : TRUE}, shotsOk : {FALSE} ]

\* the PlaywrightResult, the warnings pushed on the way and the signals seen
extractWithPlaywright(env) ==
  IF env.failed
  THEN [content |-> Null, cssColors |-> Null, screenshots |-> <<>>,
        pushed |-> <<"Playwright extraction failed">>, seen |-> NoCss]
  ELSE
    LET sig == IF env.evalOk THEN SignalsOf(env.page) ELSE NoCss
        w1  == IF env.text.title /\ ~env.text.desc
               THEN <<"No meta description found on page.">> ELSE <<>>
        w2  == IF env.text.title /\ ~env.text.list
               THEN <<"No feature list found on page. Agent should write features.">>
               ELSE <<>>
        w3  == IF env.shotsOk THEN <<>> ELSE <<"Screenshot capture partially failed">>
    IN  [content |-> IF env.text.title THEN Some("playwright") ELSE Null,
         cssColors |-> ResolveCssColors(sig),
         screenshots |-> IF env.shotsOk THEN <<"hero", "mid-page", "mobile">>
                         ELSE <<"hero">>,
         pushed |-> w1 \o w2 \o w3,
         seen |-> sig]

\* the results extractWithPlaywright can give
PlaywrightResults == {extractWithPlaywright(env) : env \in PlaywrightEnvs}

UrlStart ==
  /\ entry = "url" /\ pc = "start"
  /\ IF ParseUrl(url).valid
     THEN /\ domain' = ParseUrl(url).hostname
          /\ pc' = "tabstack"
          /\ outcome' = outcome
     ELSE /\ Raise
          /\ domain' = domain
  /\ UNCHANGED <<codecVars, entry, url, branding, baseline, css, pwColors, content, extractionMethod,
                 screenshots, leaked, warnings>>
  /\ UNCHANGED logoVars

\* Strategy 1, then the call of extractBrandingSimple up to its first probe
UrlTabstack ==
  /\ entry = "url" /\ pc = "tabstack"
  /\ \E ok \in BOOLEAN :
       /\ content' = IF ok THEN Some("tabstack") ELSE Null
       /\ warnings' = IF ok THEN warnings
                      ELSE Append(warnings, "Tabstack content extraction failed")
  /\ pc' = "brandingLogo"
  /\ CallLogo(Replace(ParseUrl(url).hostname, "www.", ""))
  /\ UNCHANGED <<codecVars, entry, url, outcome, domain, branding, baseline, css, pwColors,
                 extractionMethod, screenshots, leaked>>

\* the rest of extractBrandingSimple, and the catch around it
UrlBrandingScreenshot ==
  /\ entry = "url" /\ pc = "brandingLogo" /\ lpc = "ret"
  /\ \E o \in ShotOutcomes, colors \in Palettes :
       /\ leaked' = leaked + LeakOf(o)
       /\ IF takeScreenshot(o).ok
          THEN /\ baseline' = Some(colors)
               /\ branding' =
                    Some([logo |-> [url |-> lres.url, quality |-> lres.quality,
                                    staticPath |-> Null],
                          colors |-> colors,
                          font |-> "system-ui, -apple-system, sans-serif",
                          theme |-> detectTheme(colors)])
               /\ warnings' = warnings
          ELSE /\ UNCHANGED <<baseline, branding>>
               /\ warnings' = Append(warnings, "Cloud branding extraction failed")
  /\ pc' = "playwright"
  /\ ReturnLogo
  /\ UNCHANGED <<codecVars, entry, url, outcome, domain, css, pwColors, content, extractionMethod,
                 screenshots>>

\* the same step taking the Playwright content whenever there is one, without
\* looking at needContent
UrlPlaywrightAlwaysContent ==
  /\ entry = "url" /\ pc = "playwright"
  /\ \E playwrightResult \in PlaywrightResults :
       LET needContent == ~Truthy(content)
           needBranding == branding = Null
           w1 == warnings \o playwrightResult.pushed
       IN  /\ screenshots' = playwrightResult.screenshots
           /\ css' = playwrightResult.seen
           /\ pwColors' = playwrightResult.cssColors
           /\ IF playwrightResult.content # Null /\ ~needContent
              THEN /\ content' = playwrightResult.content
                   /\ extractionMethod' = extractionMethod
                   /\ warnings' = w1
              ELSE IF needContent
              THEN IF playwrightResult.content # Null
                   THEN /\ content' = playwrightResult.content
                        /\ extractionMethod' = "playwright-fallback"
                        /\ warnings' = Append(w1, "Content extracted via Playwright")
                   ELSE /\ content' = Some("placeholder")
                        /\ extractionMethod' = "placeholder-fallback"
                        /\ warnings' = Append(w1, "PLACEHOLDER CONTENT")
              ELSE /\ UNCHANGED <<content, extractionMethod>>
                   /\ warnings' = w1
           /\ IF needBranding
              THEN /\ pc' = "screenshot"
                   /\ branding' = branding
              ELSE /\ pc' = "download"
                   /\ branding' =
                        Some([branding[1] EXCEPT
                                !.colors = RefineUrl(@, playwrightResult.cssColors)])
  /\ UNCHANGED <<codecVars, entry, url, outcome, domain, baseline, leaked>>
  /\ UNCHANGED logoVars

\* extractWithPlaywright and what extractUrlContent does with its result, up
\* to the await of takeScreenshot (needBranding) or of the logo download
UrlPlaywright ==
  /\ entry = "url" /\ pc = "playwright"
  /\ \E playwrightResult \in PlaywrightResults :
       LET needContent == ~Truthy(content)
           needBranding == branding = Null
           w1 == warnings \o playwrightResult.pushed
       IN  /\ screenshots' = playwrightResult.screenshots
           /\ css' = playwrightResult.seen
           /\ pwColors' = playwrightResult.cssColors
           /\ IF needContent
              THEN IF playwrightResult.content # Null
                   THEN /\ content' = playwrightResult.content
                        /\ extractionMethod' = "playwright-fallback"
                        /\ warnings' = Append(w1, "Content extracted via Playwright")
                   ELSE /\ content' = Some("placeholder")
                        /\ extractionMethod' = "placeholder-fallback"
                        /\ warnings' = Append(w1, "PLACEHOLDER CONTENT")
              ELSE /\ UNCHANGED <<content, extractionMethod>>
                   /\ warnings' = w1
           /\ IF needBranding
              THEN /\ pc' = "screenshot"
                   /\ branding' = branding
              ELSE /\ pc' = "download"
                   /\ branding' =
                        Some([branding[1] EXCEPT
                                !.colors = RefineUrl(@, playwrightResult.cssColors)])
  /\ UNCHANGED <<codecVars, entry, url, outcome, domain, baseline, leaked>>
  /\ UNCHANGED logoVars

\* needBranding: screenshot, palette, CSS colours, favicon logo
UrlScreenshot ==
  /\ entry = "url" /\ pc = "screenshot"
  /\ \E o \in ShotOutcomes, palette \in Palettes :
       /\ leaked' = leaked + LeakOf(o)
       /\ IF takeScreenshot(o).ok
          THEN \E colors \in {RefineUrl(palette, pwColors)} :
                   /\ baseline' = Some(palette)
                   /\ branding' =
                        Some([logo |-> [url |-> FaviconUrl(domain), quality |-> "favicon",
                                        staticPath |-> Null],
                              colors |-> colors,
                              font |-> "system-ui, sans-serif",
                              theme |-> detectTheme(colors)])
                   /\ warnings' = Append(warnings,
                        "Colors extracted from screenshot/CSS analysis. Logo is a low-res favicon fallback.")
                   /\ pc' = "download"
                   /\ outcome' = outcome
          ELSE /\ Raise
               /\ UNCHANGED <<baseline, branding, warnings>>
  /\ UNCHANGED <<codecVars, entry, url, domain, css, pwColors, content, extractionMethod, screenshots>>
  /\ UNCHANGED logoVars

UrlDownload ==
  /\ entry = "url" /\ pc = "download"
  /\ DownloadAndReturn
  /\ UNCHANGED <<codecVars, entry, url, domain, baseline, css, pwColors, content, extractionMethod,
                 screenshots, leaked>>
  /\ UNCHANGED logoVars


(***************************************************************************)
(* extractDocsContent                                                      *)
(***************************************************************************)
\* what the Playwright session of extractBrandingWithCssColors can meet:
\* launch, newPage, goto or screenshot throws (failed), or page.evaluate throws
BrandingSessions ==
  [ failed : {FALSE}, evalOk : {TRUE}, page : Pages ]
  \cup
  [ failed : BOOLEAN, evalOk : {FALSE}, page : {CHOOSE pg \in Pages : TRUE} ]

\* extractBrandingWithCssColors after the logo: the session s, with the
\* palette the extractor gives for its screenshot
brandingSession(s, palette) ==
  LET sig == IF s.evalOk THEN SignalsOf(s.page) ELSE NoCss
      cssColors == IF s.evalOk THEN DocsCssColors(sig)
                   ELSE [primary |-> Null, accent |-> Null]
  IN  [threw |-> s.failed, baseline |-> palette, seen |-> sig,
       colors |-> RefineDocs(palette, cssColors)]

BrandingSessionResults ==
  {brandingSession(s, palette) : s \in BrandingSessions, palette \in Palettes}

DocsStart ==
  /\ entry = "docs" /\ pc = "start"
  /\ IF ParseUrl(url).valid
     THEN /\ domain' = ParseUrl(url).hostname
          /\ pc' = "markdown"
          /\ outcome' = outcome
     ELSE /\ Raise
          /\ domain' = domain
  /\ UNCHANGED <<codecVars, entry, url, branding, baseline, css, pwColors, content, extractionMethod,
                 screenshots, leaked, warnings>>
  /\ UNCHANGED logoVars

\* Phase 1: extractMarkdownWithTabstack
DocsMarkdown ==
  /\ entry = "docs" /\ pc = "markdown"
  /\ \E ok \in BOOLEAN :
       IF ok
       THEN /\ content' = Some("tabstack")
            /\ warnings' = warnings
            /\ pc' = "metadata"
       ELSE /\ content' = content
            /\ warnings' = Append(warnings, "Tabstack markdown extraction failed")
            /\ pc' = "markdownPlaywright"
  /\ UNCHANGED <<codecVars, entry, url, outcome, domain, branding, baseline, css, pwColors,
                 extractionMethod, screenshots, leaked>>
  /\ UNCHANGED logoVars

\* Phase 1, fallback: extractMarkdownWithPlaywright and the catch around it
DocsMarkdownPlaywright ==
  /\ entry = "docs" /\ pc = "markdownPlaywright"
  /\ \E ok \in BOOLEAN :
       IF ok
       THEN /\ content' = Some("playwright")
            /\ extractionMethod' = "playwright-fallback"
            /\ warnings' = Append(warnings,
                 "Markdown extracted via Playwright DOM parsing. Code block language hints may be missing.")
       ELSE /\ content' = Some("placeholder")
            /\ extractionMethod' = extractionMethod
            /\ warnings' = Append(warnings, "Playwright markdown fallback failed")
  /\ pc' = "metadata"
  /\ UNCHANGED <<codecVars, entry, url, outcome, domain, branding, baseline, css, pwColors, screenshots,
                 leaked>>
  /\ UNCHANGED logoVars

\* Phase 2, then the call of extractBrandingWithCssColors up to its first probe
DocsMetadata ==
  /\ entry = "docs" /\ pc = "metadata"
  /\ \E ok \in BOOLEAN :
       warnings' = IF ok THEN warnings
                   ELSE Append(warnings, "Tabstack metadata extraction failed")
  /\ pc' = "brandingLogo"
  /\ CallLogo(Replace(domain, "www.", ""))
  /\ UNCHANGED <<codecVars, entry, url, outcome, domain, branding, baseline, css, pwColors, content,
                 extractionMethod, screenshots, leaked>>

\* Phase 3 with a catch that substitutes the defaults and pushes no warning
DocsBrandingSessionSilent ==
  /\ entry = "docs" /\ pc = "brandingLogo" /\ lpc = "ret"
  /\ \E r \in BrandingSessionResults :
       IF r.threw
       THEN /\ warnings' = warnings
            /\ branding' =
                 Some([logo |-> [url |-> FaviconUrl(domain), quality |-> "favicon",
                                 staticPath |-> Null],
                       colors |-> [primary |-> "#0066FF", secondary |-> "#003D99",
                                   accent |-> "#66B3FF", background |-> "#FFFFFF"],
                       font |-> "system-ui, sans-serif",
                       theme |-> "light"])
            /\ UNCHANGED <<baseline, css>>
       ELSE /\ warnings' = warnings
            /\ baseline' = Some(r.baseline)
            /\ css' = r.seen
            /\ branding' =
                 Some([logo |-> [url |-> lres.url, quality |-> lres.quality,
                                 staticPath |-> Null],
                       colors |-> r.colors,
                       font |-> "system-ui, -apple-system, sans-serif",
                       theme |-> detectTheme(r.colors)])
  /\ pc' = "download"
  /\ ReturnLogo
  /\ UNCHANGED <<codecVars, entry, url, outcome, domain, pwColors, content, extractionMethod,
                 screenshots, leaked>>

\* Phase 3: the browser session of extractBrandingWithCssColors, and the catch
\* of extractDocsContent around it
DocsBrandingSession ==
  /\ entry = "docs" /\ pc = "brandingLogo" /\ lpc = "ret"
  /\ \E r \in BrandingSessionResults :
       IF r.threw
       THEN /\ warnings' = Append(warnings, "Branding extraction failed")
            /\ branding' =
                 Some([logo |-> [url |-> FaviconUrl(domain), quality |-> "favicon",
                                 staticPath |-> Null],
                       colors |-> [primary |-> "#0066FF", secondary |-> "#003D99",
                                   accent |-> "#66B3FF", background |-> "#FFFFFF"],
                       font |-> "system-ui, sans-serif",
                       theme |-> "light"])
            /\ UNCHANGED <<baseline, css>>
       ELSE /\ warnings' = warnings
            /\ baseline' = Some(r.baseline)
            /\ css' = r.seen
            /\ branding' =
                 Some([logo |-> [url |-> lres.url, quality |-> lres.quality,
                                 staticPath |-> Null],
                       colors |-> r.colors,
                       font |-> "system-ui, -apple-system, sans-serif",
                       theme |-> detectTheme(r.colors)])
  /\ pc' = "download"
  /\ ReturnLogo
  /\ UNCHANGED <<codecVars, entry, url, outcome, domain, pwColors, content, extractionMethod,
                 screenshots, leaked>>

DocsDownload ==
  /\ entry = "docs" /\ pc = "download"
  /\ DownloadAndReturn
  /\ UNCHANGED <<codecVars, entry, url, domain, baseline, css, pwColors, content, extractionMethod,
                 screenshots, leaked>>
  /\ UNCHANGED logoVars

(***************************************************************************)
(* The runs                                                                *)
(***************************************************************************)
Entries == {"logo", "branding", "url", "docs"}

\* the url arguments of the runs of each entry
UrlsOf(e) ==
  IF e \in {"logo", "branding"} THEN {u.href : u \in Urls}
  ELSE {"https://www.example.com/docs", "not a url"}

Init ==
  /\ entry \in Entries
  /\ url \in UrlsOf(entry)
  /\ outcome = "running"
  /\ domain = ""
  /\ li = 1
  /\ probes = <<>>
  /\ lres = NoLogo
  /\ branding = Null
  /\ baseline = Null
  /\ css = NoCss
  /\ pwColors = Null
  /\ content = Null
  /\ screenshots = <<>>
  /\ leaked = 0
  /\ callee = "none"
  /\ input = Null
  /\ factor = <<1, 1>>
  /\ output = ""
  /\ output2 = ""
  /\ warnings \in IF entry \in {"logo", "branding"} THEN CallerWarnings ELSE {<<>>}
  /\ lw0 = warnings
  /\ extractionMethod = IF entry = "url" THEN "tabstack"
                        ELSE IF entry = "docs" THEN "tabstack-markdown" ELSE ""
  /\ IF entry = "logo"
     THEN /\ pc = "call"
          /\ lpc = "clearbit"
          /\ ldomain \in Domains
     ELSE /\ pc = "start"
          /\ lpc = "idle"
          /\ ldomain = ""

Next ==
  \/ LogoClearbit
  \/ LogoPath
  \/ LogoFavicon
  \/ LogoDone
  \/ BrandingStart
  \/ BrandingScreenshot
  \/ UrlStart
  \/ UrlTabstack
  \/ UrlBrandingScreenshot
  \/ UrlPlaywright
  \/ UrlScreenshot
  \/ UrlDownload
  \/ DocsStart
  \/ DocsMarkdown
  \/ DocsMarkdownPlaywright
  \/ DocsMetadata
  \/ DocsBrandingSession
  \/ DocsDownload

Spec == Init /\ [][Next]_vars

(***************************************************************************)
(* Direct calls of the colour codec                                        *)
(***************************************************************************)
\* The arguments of the direct calls of rgbaToHex: hex colours of three, six
\* and eight digits, rgb()/rgba() and hsl()/hsla() with channels inside and
\* outside their ranges, named colours, and strings of no supported format.
HexDigitChoices == {"a", "b", "c", "0", "F"}
HexPairs == {"FF", "66", "00", "1a"}
AlphaPairs == {"AA", "00", "ff"}

Hex3Inputs == {"#" \o a \o b \o c : a, b, c \in HexDigitChoices}
Hex6Inputs == {"#" \o a \o b \o c : a, b, c \in HexPairs}
Hex8Inputs == {h \o al : h \in {"#FF6600", "#00FF1a", "#1a1a1a"}, al \in AlphaPairs}

RgbChannels == {"0", "10", "102", "255"}
RgbInputs ==
  {"rgb(" \o r \o ", " \o g \o ", " \o b \o ")" : r, g, b \in RgbChannels}
  \cup {"rgba(" \o r \o "," \o g \o ",0, 0.5)" : r, g \in RgbChannels}
  \cup {"rgb( 255 ,102 , 0 )"}
\* channels above 255, which CSS accepts and clamps
RgbOverInputs == {"rgb(300, 0, 0)", "rgba(0, 256, 0, 1)", "rgb(0, 0, 1000)"}

HslInputs ==
  {"hsl(" \o h \o ", " \o s \o "%, " \o l \o "%)" :
     h \in {"0", "120", "240", "360", "12.5"}, s \in {"0", "50", "100"},
     l \in {"0", "50", "100"}}
  \cup {"hsla(" \o h \o ", 100%, 50%, 0.5)" : h \in {"0", "120", "240"}}
\* a saturation above 100%, which CSS accepts and clamps
HslOverInputs == {"hsl(0, 200%, 50%)", "hsl(120, 300%, 50%)"}

NamedInputs == DOMAIN namedColors \cup {"Coral", "WHITE", " red "}

\* inputs of no supported format: missing, empty, modern colour functions,
\* garbage
UnsupportedInputs ==
  {Null, Some("")} \cup
  {Some(s) : s \in {"oklch(0.7 0.15 200)", "lab(50% 40 60)", "not-a-color",
                    "color(srgb 1 0 0)", "transparent", "rgb(10 20 30)",
                    "constructor", "__proto__", "#xyz", "#12", "#gggggg",
                    "hsl(., 1%, 1%)"}}

ValidHexInputs == {Some(s) : s \in Hex3Inputs \cup Hex6Inputs \cup Hex8Inputs}

\* the inputs of a supported format with every channel inside its range
InRangeInputs ==
  ValidHexInputs \cup {Some(s) : s \in RgbInputs \cup HslInputs \cup NamedInputs}

\* the valid inputs: of a supported format, as CSS accepts them
ValidInputs == InRangeInputs \cup {Some(s) : s \in RgbOverInputs \cup HslOverInputs}

ColorInputs == ValidInputs \cup UnsupportedInputs \cup {Some("#abcd"), Some("#abcde fg")}

\* The arguments of the direct calls of darkenHex
MalformedHexInputs ==
  {"not-hex", "#abc", "", "#12345", "FF6600#", "#gggggg", "#1g0000", "#12345g",
   "#zz0000", "# 1 2 3"}
DarkenInputs == Hex6Inputs \cup {"#ff6600", "#0a141e"} \cup MalformedHexInputs
Factors == {<<0, 1>>, <<1, 4>>, <<1, 2>>, <<3, 5>>, <<1, 1>>}

\* The arguments of the direct calls of detectTheme; an absent background is
\* the empty string, which !bgColor treats alike
CanonicalBackgrounds ==
  Hex6Inputs \cup {"#FFFFFF", "#1A1A1A", "#808080", "#7f7f7f", "#818181", "#0000ff",
                   "#00ff00", "#ff0000", "#da0000", "#00da00"}
MalformedBackgrounds ==
  {"", "not-a-color", "#fff", "FFFFFF", "#12345", "#gggggg", "#00000g",
   "#000000ff", "#ffffff00", "#0000 0"}
ThemeInputs ==
  [primary : {"#0066FF", "#000000"}, secondary : {"#003D99"}, accent : {"#66B3FF", "#ffffff"},
   background : CanonicalBackgrounds \cup MalformedBackgrounds]

(***************************************************************************)
(* calculateVideoMetadata (Root.tsx).  A duration is a whole number of      *)
(* hundredths of a second.                                                  *)
(***************************************************************************)
FPS == 30
DEFAULT_DURATION_FRAMES == 900

\* Math.ceil(seconds * FPS), seconds given in hundredths
CeilFrames(cs) == (cs * FPS + 99) \div 100

\* props: narrationPath / musicPath say whether the staticPath is set, duration
\* is props.duration (0 when absent).  reads: what getAudioDurationInSeconds
\* gives for each file, Null when it throws.
calculateVideoMetadata(props, reads) ==
  LET d0 == DEFAULT_DURATION_FRAMES
      d1 == IF props.narrationPath /\ reads.narration # Null
            THEN CeilFrames(reads.narration[1]) ELSE d0
      d2 == IF d1 = DEFAULT_DURATION_FRAMES /\ props.musicPath /\ reads.music # Null
            THEN CeilFrames(reads.music[1]) ELSE d1
  IN  IF d2 = DEFAULT_DURATION_FRAMES /\ props.duration # 0
      THEN CeilFrames(props.duration) ELSE d2

\* audio lengths: 12.5 s, 29.99 s, 30 s, 45 s
AudioLengths == {1250, 2999, 3000, 4500}
AudioReads == {Null} \cup {Some(cs) : cs \in AudioLengths}
\* props.duration: absent, 20 s, 30 s, 60 s
PropDurations == {0, 2000, 3000, 6000}
VideoInputs ==
  { [props |-> [narrationPath |-> np, musicPath |-> mp, duration |-> pd],
     reads |-> [narration |-> nr, music |-> mr]] :
      np \in BOOLEAN, mp \in BOOLEAN, pd \in PropDurations,
      nr \in AudioReads, mr \in AudioReads }

(***************************************************************************)
(* detectBeats (beat-detection.ts).  A time is a whole number of hundredths *)
(* of a second; a parsed number is NaN or a time.                           *)
(***************************************************************************)
Time(v) == [nan |-> FALSE, v |-> v]
NaNTime == [nan |-> TRUE, v |-> 0]

\* one run of a tool: `which` finds it or not, the command exits well or not,
\* and the numbers parseFloat reads from its output
ToolRuns ==
  { [installed |-> FALSE, ok |-> FALSE, parsed |-> <<>>],
    [installed |-> TRUE, ok |-> FALSE, parsed |-> <<>>],
    [installed |-> TRUE, ok |-> TRUE, parsed |-> <<>>],
    [installed |-> TRUE, ok |-> TRUE, parsed |-> <<NaNTime>>],
    [installed |-> TRUE, ok |-> TRUE, parsed |-> <<Time(0)>>],
    [installed |-> TRUE, ok |-> TRUE, parsed |-> <<Time(0), Time(46), Time(93)>>] }

\* Null when the function throws, else Some of the beats
detectBeatsWithAubio(run) ==
  IF ~run.installed \/ ~run.ok THEN Null
  ELSE Some(SelectSeq(run.parsed, LAMBDA beat : ~beat.nan /\ beat.v > 0))

detectBeatsWithFFmpeg(run) ==
  IF ~run.installed \/ ~run.ok THEN Null
  ELSE Some(run.parsed)

RECURSIVE HeuristicFrom(_, _, _)
\* the for loop of generateHeuristicBeats from `time` on
HeuristicFrom(time, interval, durationSeconds) ==
  IF time < durationSeconds
  THEN <<Time(time)>> \o HeuristicFrom(time + interval, interval, durationSeconds)
  ELSE <<>>

generateHeuristicBeats(bpm, durationSeconds) ==
  HeuristicFrom(0, 6000 \div bpm, durationSeconds)

\* the duration argument: 0 s, 1 s, 2.25 s
BeatDurations == {0, 100, 225}
BeatInputs == [aubio : ToolRuns, ffmpeg : ToolRuns, duration : BeatDurations]

\* The arguments of the direct calls of inferIndustry
Titles ==
  {"React Documentation", "Best Online Store", "Hello World", "Payment API",
   "GAME STORE", "Happy", "Social", "Clinic Training", "Learn Chess", ""}
Descriptions ==
  {"A JavaScript library for building user interfaces",
   "Buy products at great prices in our marketplace", "Just a test page",
   "Media for every player", "Invest in your BRAND", ""}
IndustryInputs == [title : Titles, description : Descriptions]

runVars == <<entry, url, domain, warnings, branding, baseline, css, pwColors, content,
             extractionMethod, screenshots, leaked>>

CodecInit ==
  /\ entry = "codec"
  /\ url = "https://www.example.com/docs"
  /\ pc = "call"
  /\ outcome = "running"
  /\ domain = ""
  /\ lpc = "idle"
  /\ ldomain = ""
  /\ li = 1
  /\ probes = <<>>
  /\ lres = NoLogo
  /\ branding = Null
  /\ baseline = Null
  /\ css = NoCss
  /\ pwColors = Null
  /\ content = Null
  /\ screenshots = <<>>
  /\ leaked = 0
  /\ warnings = <<>>
  /\ lw0 = <<>>
  /\ extractionMethod = ""
  /\ callee \in {"rgbaToHex", "darkenHex", "detectTheme", "inferIndustry",
                 "calculateVideoMetadata", "detectBeats"}
  /\ input \in CASE callee = "rgbaToHex" -> ColorInputs
                 [] callee = "darkenHex" -> DarkenInputs
                 [] callee = "detectTheme" -> ThemeInputs
                 [] callee = "inferIndustry" -> IndustryInputs
                 [] callee = "calculateVideoMetadata" -> VideoInputs
                 [] callee = "detectBeats" -> BeatInputs
  /\ factor \in IF callee = "darkenHex" THEN Factors ELSE {<<1, 1>>}
  /\ output = ""
  /\ output2 = ""

CallRgbaToHex ==
  /\ entry = "codec" /\ callee = "rgbaToHex" /\ pc = "call"
  /\ output' = rgbaToHex(input)
  /\ pc' = "again"
  /\ UNCHANGED <<outcome, callee, input, factor, output2>>
  /\ UNCHANGED runVars
  /\ UNCHANGED logoVars

\* the returned value goes through rgbaToHex once more; a value that is not a
\* string fails the typeof test of its first line
CallRgbaToHexAgain ==
  /\ entry = "codec" /\ callee = "rgbaToHex" /\ pc = "again"
  /\ output2' = IF output = NonString THEN "#0066FF" ELSE rgbaToHex(Some(output))
  /\ pc' = "done"
  /\ outcome' = "returned"
  /\ UNCHANGED <<callee, input, factor, output>>
  /\ UNCHANGED runVars
  /\ UNCHANGED logoVars

CallDarkenHex ==
  /\ entry = "codec" /\ callee = "darkenHex" /\ pc = "call"
  /\ output' = darkenHex(input, factor[1], factor[2])
  /\ pc' = "done"
  /\ outcome' = "returned"
  /\ UNCHANGED <<callee, input, factor, output2>>
  /\ UNCHANGED runVars
  /\ UNCHANGED logoVars

CallDetectTheme ==
  /\ entry = "codec" /\ callee = "detectTheme" /\ pc = "call"
  /\ output' = detectTheme(input)
  /\ pc' = "done"
  /\ outcome' = "returned"
  /\ UNCHANGED <<callee, input, factor, output2>>
  /\ UNCHANGED runVars
  /\ UNCHANGED logoVars

CallInferIndustry ==
  /\ entry = "codec" /\ callee = "inferIndustry" /\ pc = "call"
  /\ output' = inferIndustry(input.title, input.description)
  /\ pc' = "done"
  /\ outcome' = "returned"
  /\ UNCHANGED <<callee, input, factor, output2>>
  /\ UNCHANGED runVars
  /\ UNCHANGED logoVars

\* the returned durationInFrames
CallCalculateVideoMetadata ==
  /\ entry = "codec" /\ callee = "calculateVideoMetadata" /\ pc = "call"
  /\ output' = calculateVideoMetadata(input.props, input.reads)
  /\ pc' = "done"
  /\ outcome' = "returned"
  /\ UNCHANGED <<callee, input, factor, output2>>
  /\ UNCHANGED runVars
  /\ UNCHANGED logoVars

\* detectBeats; output2 lists the methods tried so far
BeatsFrame ==
  /\ UNCHANGED <<callee, input, factor>>
  /\ UNCHANGED runVars
  /\ UNCHANGED logoVars

\* Method 1 returning whatever list aubio gave, empty or not
BeatsAubioAcceptsEmpty ==
  /\ entry = "codec" /\ callee = "detectBeats" /\ pc = "call"
  /\ output2' = <<"aubio">>
  /\ \E beats \in {detectBeatsWithAubio(input.aubio)} :
       IF beats # Null
       THEN /\ output' = beats[1]
            /\ pc' = "done"
            /\ outcome' = "returned"
       ELSE /\ output' = output
            /\ pc' = "ffmpeg"
            /\ outcome' = outcome
  /\ BeatsFrame

\* Method 1 and its catch
BeatsAubio ==
  /\ entry = "codec" /\ callee = "detectBeats" /\ pc = "call"
  /\ output2' = <<"aubio">>
  /\ \E beats \in {detectBeatsWithAubio(input.aubio)} :
       IF beats # Null /\ Len(beats[1]) > 0
       THEN /\ output' = beats[1]
            /\ pc' = "done"
            /\ outcome' = "returned"
       ELSE /\ output' = output
            /\ pc' = "ffmpeg"
            /\ outcome' = outcome
  /\ BeatsFrame

\* Method 2 and its catch
BeatsFFmpeg ==
  /\ entry = "codec" /\ callee = "detectBeats" /\ pc = "ffmpeg"
  /\ output2' = Append(output2, "ffmpeg")
  /\ \E beats \in {detectBeatsWithFFmpeg(input.ffmpeg)} :
       IF beats # Null /\ Len(beats[1]) > 0
       THEN /\ output' = beats[1]
            /\ pc' = "done"
            /\ outcome' = "returned"
       ELSE /\ output' = output
            /\ pc' = "heuristic"
            /\ outcome' = outcome
  /\ BeatsFrame

\* Method 3
BeatsHeuristic ==
  /\ entry = "codec" /\ callee = "detectBeats" /\ pc = "heuristic"
  /\ output2' = Append(output2, "heuristic")
  /\ output' = generateHeuristicBeats(120, input.duration)
  /\ pc' = "done"
  /\ outcome' = "returned"
  /\ BeatsFrame

CodecNext ==
  \/ CallRgbaToHex
  \/ CallRgbaToHexAgain
  \/ CallDarkenHex
  \/ CallDetectTheme
  \/ CallInferIndustry
  \/ CallCalculateVideoMetadata
  \/ BeatsAubio
  \/ BeatsFFmpeg
  \/ BeatsHeuristic

SpecCodec == CodecInit /\ [][CodecNext]_vars

(***************************************************************************)
(* extractLogoFromCloud: the three tiers                                   *)
(***************************************************************************)
\* the probes of the running (or just returned) call failed, all of them
AllProbesFailed == \A j \in 1..Len(probes) : probes[j].result # "200"

\* C1: whenever the brand-API probe answered 200, the call has returned
\* {url: the brand-API URL of the domain, quality: 'high'}, that probe is the
\* only probe made, and the warnings are as they were at the call.
C1_BrandApiHit ==
  (probes # <<>> /\ probes[1].result = "200") =>
    /\ lpc = "ret"
    /\ lres = [url |-> ClearbitUrl(ldomain), quality |-> "high"]
    /\ Len(probes) = 1
    /\ warnings = lw0

C1_Witness ==
  /\ entry = "logo" /\ pc = "done" /\ outcome = "returned"
  /\ probes # <<>> /\ probes[1].result = "200"
  /\ lw0 # <<>>

\* C2: once the brand-API probe has failed and common paths are probed, the
\* probes follow the declared order of the six paths, every probe before the
\* last one failed, and the call returns {url: p, quality: 'medium'} exactly
\* when the last probe, of path p, answered 200: p is the earliest path that
\* answers 200 and no later path is probed.
C2_EarliestPathWins ==
  Len(probes) >= 2 =>
    LET paths == commonPaths(ParseUrl(url).origin)
        k == Len(probes) - 1
    IN  /\ probes[1].result # "200"
        /\ k <= 6
        /\ \A j \in 1..k : probes[j + 1].url = paths[j]
        /\ \A j \in 1..(k - 1) : probes[j + 1].result # "200"
        /\ probes[k + 1].result = "200" =>
             lpc = "ret" /\ lres = [url |-> paths[k], quality |-> "medium"]
        /\ (lpc = "ret" /\ lres.quality = "medium") => probes[k + 1].result = "200"

C2_Witness ==
  /\ lpc = "ret" /\ lres.quality = "medium"
  /\ Len(probes) = 4
  /\ probes[2].result = "non200" /\ probes[3].result = "threw"
  /\ lres.url = "https://docs.acme.dev/assets/logo.svg"

\* C3: a call that returned after the brand-API probe and every common-path
\* probe failed made all seven probes, returns {url: the favicon-service URL of
\* the domain, quality: 'favicon'} and has appended exactly one warning, the
\* one about the favicon; and the favicon is returned in no other case.
C3_FaviconFallback ==
  /\ (lpc = "ret" /\ AllProbesFailed) =>
       /\ Len(probes) = 7
       /\ lres = [url |-> FaviconUrl(ldomain), quality |-> "favicon"]
       /\ warnings = Append(lw0, FaviconWarning(ldomain))
  /\ (lpc = "ret" /\ lres.quality = "favicon") => AllProbesFailed

C3_Witness ==
  /\ lpc = "ret" /\ lres.quality = "favicon"
  /\ lw0 # <<>>
  /\ \E i, j \in 1..Len(probes) : probes[i].result = "non200" /\ probes[j].result = "threw"

\* C4: a call of extractLogoFromCloud never ends by raising an error.
C4_NeverRaises == lpc # "raised"

\* C5: no URL is probed twice, the first probe is the brand-API probe, every
\* probe but the last made so far has failed, and until the favicon step the
\* warnings are as they were at the call, whatever probes have failed.
C5_SequentialNoRetry ==
  /\ \A i, j \in 1..Len(probes) : probes[i].url = probes[j].url => i = j
  /\ probes # <<>> => probes[1].url = ClearbitUrl(ldomain)
  /\ \A j \in 1..(Len(probes) - 1) : probes[j].result # "200"
  /\ lpc \in {"clearbit", "paths", "favicon", "raised"} => warnings = lw0

C5_Witness ==
  /\ lpc = "favicon" /\ Len(probes) = 7 /\ AllProbesFailed
  /\ lw0 # <<>> /\ warnings = lw0


(***************************************************************************)
(* The colours of a returned BrandingResult                                *)
(***************************************************************************)
\* the run returned a BrandingResult whose palette came from a screenshot
Refined ==
  /\ entry \in {"url", "docs"}
  /\ pc = "done" /\ outcome = "returned"
  /\ branding # Null /\ baseline # Null

\* two colour strings denote the same 24-bit colour
SameColor(a, b) == ToLowerCase(a) = ToLowerCase(b)

\* the CSS-derived signal the entry point takes the primary from, Null if none
PrimarySignal ==
  IF Truthy(css.primary) THEN css.primary
  ELSE IF Truthy(css.buttonBg) THEN css.buttonBg
  ELSE IF entry = "url" /\ Truthy(css.linkColor) THEN css.linkColor
  ELSE Null

C7_PrimaryPriority ==
  Refined =>
    branding[1].colors.primary =
      IF Truthy(css.primary) THEN rgbaToHex(css.primary)
      ELSE IF Truthy(css.buttonBg) THEN rgbaToHex(css.buttonBg)
      ELSE IF Truthy(css.linkColor) THEN rgbaToHex(css.linkColor)
      ELSE baseline[1].primary

\* extractDocsContent on a page whose only signal is a link colour
C7_Witness ==
  /\ Refined /\ entry = "docs"
  /\ css.primary = Null /\ css.buttonBg = Null
  /\ css.linkColor = Some("rgb(0, 0, 238)")
  /\ baseline[1].primary = "#ff6600"
  /\ branding[1].colors.primary = "#ff6600"

\* C8: the background of a returned BrandingResult is the background the
\* palette extractor gave for the screenshot, whatever CSS signals were found.
C8_BackgroundKept ==
  Refined => branding[1].colors.background = baseline[1].background

C8_Witness ==
  /\ Refined /\ entry = "url"
  /\ Truthy(css.primary) /\ Truthy(css.accent)
  /\ branding[1].colors.primary = "#0a141e"
  /\ branding[1].colors.background = "#1a1a1a"

\* C9: accent is the normalised CSS accent signal when there is one and the
\* baseline accent when there is none, whether or not primary was overwritten;
\* and a page with the CSS primary rgb(10,20,30) and no accent variable gives
\* primary '#0a141e', secondary darkenHex('#0a141e', 0.6) = '#060c12' and the
\* baseline accent.
C9_Accent ==
  Refined =>
    /\ branding[1].colors.accent =
         IF Truthy(css.accent) THEN rgbaToHex(css.accent) ELSE baseline[1].accent
    /\ (css.primary = Some("rgb(10,20,30)") /\ css.accent = Null) =>
         /\ branding[1].colors.primary = "#0a141e"
         /\ branding[1].colors.secondary = "#060c12"
         /\ branding[1].colors.secondary = darkenHex("#0a141e", 3, 5)
         /\ branding[1].colors.accent = baseline[1].accent

C9_Witness ==
  /\ Refined /\ entry = "docs"
  /\ css.primary = Some("rgb(10,20,30)") /\ css.accent = Null
  /\ baseline[1].accent = "#00cc88"
  /\ branding[1].colors =
       [primary |-> "#0a141e", secondary |-> "#060c12", accent |-> "#00cc88",
        background |-> "#1a1a1a"]

\* C10: a call of extractBranding, extractUrlContent or extractDocsContent on
\* a well-formed URL never ends by raising: it returns a BrandingResult.
C10_OrchestratorNeverRaises ==
  (entry \in {"branding", "url", "docs"} /\ ParseUrl(url).valid /\ pc = "done") =>
    outcome = "returned" /\ branding # Null


(***************************************************************************)
(* extractDocsContent: the branding fallback                               *)
(***************************************************************************)
\* how often the warning x is in the sequence seq
Count(seq, x) == Cardinality({i \in 1..Len(seq) : seq[i] = x})

\* extractDocsContent is past Phase 3 and extractBrandingWithCssColors threw
DocsBrandingThrew ==
  /\ entry = "docs" /\ ParseUrl(url).valid
  /\ pc \in {"download", "done"}
  /\ baseline = Null

\* C11: when extractBrandingWithCssColors threw, the warnings hold exactly one
\* 'Branding extraction failed' (the last one pushed before the download), the
\* branding is the default (favicon logo of quality 'favicon', colours
\* #0066FF / #003D99 / #66B3FF / #FFFFFF, theme 'light'), and the call goes on
\* to the logo download and returns; when it did not throw there is no such
\* warning.
C11_DocsBrandingFallback ==
  /\ DocsBrandingThrew =>
       /\ Count(warnings, "Branding extraction failed") = 1
       /\ pc = "download" => warnings[Len(warnings)] = "Branding extraction failed"
       /\ branding # Null
       /\ branding[1].logo.url = FaviconUrl(domain)
       /\ branding[1].logo.quality = "favicon"
       /\ branding[1].colors =
            [primary |-> "#0066FF", secondary |-> "#003D99", accent |-> "#66B3FF",
             background |-> "#FFFFFF"]
       /\ branding[1].theme = "light"
       /\ pc = "done" =>
            /\ outcome = "returned"
            /\ \/ Truthy(branding[1].logo.staticPath)
               \/ warnings[Len(warnings)] = LogoDownloadWarning
  /\ (entry = "docs" /\ ~DocsBrandingThrew) =>
       Count(warnings, "Branding extraction failed") = 0

C11_Witness ==
  /\ DocsBrandingThrew /\ pc = "done" /\ outcome = "returned"
  /\ Truthy(branding[1].logo.staticPath)
  /\ Len(warnings) >= 3


(***************************************************************************)
(* Canonical colours                                                       *)
(***************************************************************************)
\* '#' followed by exactly six hex digits
IsCanonical(str) ==
  /\ Len(str) = 7
  /\ SubSeq(str, 1, 1) = "#"
  /\ \A i \in 2..7 : IsHexDigit(SubSeq(str, i, i))

\* C12: given a canonical baseline palette, the four colours of every returned
\* BrandingResult are canonical, whatever CSS signals the page holds.
C12_ColoursCanonical ==
  (/\ pc = "done" /\ outcome = "returned" /\ branding # Null
   /\ baseline # Null
   /\ \A f \in {"primary", "secondary", "accent", "background"} :
        IsCanonical(baseline[1][f])) =>
    \A f \in {"primary", "secondary", "accent", "background"} :
      IsCanonical(branding[1].colors[f])

\* a page whose --primary is a four-digit hex colour
C12_Witness ==
  /\ pc = "done" /\ outcome = "returned" /\ branding # Null /\ baseline # Null
  /\ css.primary = Some("#abcd")
  /\ branding[1].colors.primary = "#abcd"
  /\ branding[1].colors.secondary = "#003D99"


(***************************************************************************)
(* rgbaToHex called directly                                               *)
(***************************************************************************)
\* rgbaToHex has returned (output holds its value)
Normalized == callee = "rgbaToHex" /\ pc \in {"again", "done"}

\* C13: for every unsupported input (empty, missing, a modern colour
\* function, garbage) rgbaToHex returns exactly the string '#0066FF'.
C13_UnsupportedGivesDefault ==
  (Normalized /\ input \in UnsupportedInputs) => output = "#0066FF"

\* garbage after a '#' is passed through; an inherited key of the table reads
\* a value that is no string
C13_Witness ==
  \/ Normalized /\ input = Some("#xyz") /\ output = "#xxyyzz"
  \/ Normalized /\ input = Some("constructor") /\ output = NonString

\* C14: for every valid hex, rgb(), rgba(), hsl(), hsla() or named-colour
\* input rgbaToHex returns '#' followed by six hex digits.
C14_ValidGivesCanonical ==
  (Normalized /\ input \in ValidInputs) => IsCanonical(output)

C14_Witness ==
  /\ Normalized /\ input = Some("rgb(300, 0, 0)")
  /\ output = "#12c0000"

\* for the inputs whose channels are inside their ranges the value is canonical
C14_InRangeGivesCanonical ==
  (Normalized /\ input \in InRangeInputs) => IsCanonical(output)

\* C15: rgbaToHex applied to its own result gives that result again.
C15_Idempotent ==
  (callee = "rgbaToHex" /\ pc = "done") => output2 = output

C15_Witness ==
  /\ callee = "rgbaToHex" /\ pc = "done"
  /\ input = Some("rgb(300, 0, 0)")
  /\ output = "#12c0000" /\ output2 = "#12c000"


\* the k-th channel (1 = red, 2 = green, 3 = blue) of a canonical colour
ChannelOf(str, k) ==
  16 * HexDigitValue(SubSeq(str, 2 * k, 2 * k)) + HexDigitValue(SubSeq(str, 2 * k + 1, 2 * k + 1))

\* the hex digit at position i of the input, 1 = the first after '#'
DigitOf(str, i) == SubSeq(str, i + 1, i + 1)

\* C16: a three-digit hex input has each digit doubled, a six-digit one is
\* returned unchanged, an eight-digit one loses its two alpha digits; the
\* red, green and blue digits never depend on the alpha.
C16_HexHandling ==
  (Normalized /\ input # Null) =>
    LET x == input[1]
    IN  /\ x \in Hex3Inputs =>
             output = "#" \o DigitOf(x, 1) \o DigitOf(x, 1)
                          \o DigitOf(x, 2) \o DigitOf(x, 2)
                          \o DigitOf(x, 3) \o DigitOf(x, 3)
        /\ x = "#abc" => output = "#aabbcc"
        /\ x \in Hex6Inputs => output = x
        /\ x \in Hex8Inputs =>
             /\ IsCanonical(output)
             /\ output = SubSeq(x, 1, 7)
             /\ \A other \in Hex8Inputs :
                  SubSeq(other, 1, 7) = SubSeq(x, 1, 7) => rgbaToHex(Some(other)) = output
        /\ x = "#FF6600AA" => output = "#FF6600"

C16_Witness ==
  /\ Normalized
  /\ input = Some("#FF6600AA")
  /\ output = "#FF6600"

(***************************************************************************)
(* darkenHex called directly                                               *)
(***************************************************************************)
Darkened == callee = "darkenHex" /\ pc = "done"

\* v is x = c * num / den rounded to the nearest integer, a tie going up
NearestTo(v, c, num, den) ==
  /\ 2 * den * v <= 2 * c * num + den
  /\ 2 * c * num + den < 2 * den * (v + 1)

\* C17: for a canonical colour and a factor in [0, 1] darkenHex multiplies
\* each channel by the factor, rounds to the nearest integer and writes the
\* three channels as '#' plus six hex digits; factor 0 gives '#000000',
\* factor 1 the same colour, and '#FF6600' at 0.5 gives '#803300'.
C17_Darken ==
  (Darkened /\ IsCanonical(input)) =>
    /\ IsCanonical(output)
    /\ \A k \in 1..3 :
         NearestTo(ChannelOf(output, k), ChannelOf(input, k), factor[1], factor[2])
    /\ factor = <<0, 1>> => output = "#000000"
    /\ factor = <<1, 1>> => SameColor(output, input)
    /\ (input = "#FF6600" /\ factor = <<1, 2>>) => output = "#803300"

C17_Witness ==
  /\ Darkened
  /\ input = "#FF6600" /\ factor = <<1, 2>>
  /\ output = "#803300"


\* a string that is not '#' followed by at least six hex digits
MalformedHex(str) ==
  ~ /\ Len(str) >= 7
    /\ SubSeq(str, 1, 1) = "#"
    /\ \A i \in 2..7 : IsHexDigit(SubSeq(str, i, i))

\* C18: for every malformed input (anything that is not '#' followed by at
\* least six hex digits) darkenHex returns '#003D99', whatever the factor.
C18_MalformedGivesSentinel ==
  (Darkened /\ MalformedHex(input)) => output = "#003D99"

\* a non-hex character after a hex digit is skipped by parseInt
C18_Witness ==
  /\ Darkened
  /\ input = "#1g0000" /\ factor = <<1, 1>>
  /\ output = "#010000"

(***************************************************************************)
(* detectTheme called directly                                             *)
(***************************************************************************)
Detected == callee = "detectTheme" /\ pc = "done"

\* C19: for a canonical background detectTheme answers 'light' exactly when
\* 0.299 R + 0.587 G + 0.114 B is above 128, 'dark' otherwise, and no other
\* field of the colour set changes the answer.
C19_Luminance ==
  (Detected /\ IsCanonical(input.background)) =>
    LET bg == input.background
        lum1000 == 299 * ChannelOf(bg, 1) + 587 * ChannelOf(bg, 2) + 114 * ChannelOf(bg, 3)
    IN  /\ output = (IF lum1000 > 128000 THEN "light" ELSE "dark")
        /\ \A other \in ThemeInputs :
             other.background = bg => detectTheme(other) = output

\* luminance exactly 128 is dark
C19_Witness ==
  /\ Detected
  /\ input.background = "#808080"
  /\ input.primary # DefaultPalette.primary
  /\ output = "dark"

\* C20: for every malformed or missing background (absent, no leading '#',
\* shorter than 7 characters, or not '#' plus exactly six hex digits)
\* detectTheme answers 'light'.
C20_MalformedGivesLight ==
  (Detected /\ ~IsCanonical(input.background)) => output = "light"

C20_Witness ==
  /\ Detected
  /\ input.background = "#00000g"
  /\ output = "dark"


(***************************************************************************)
(* inferIndustry called directly                                           *)
(***************************************************************************)
Inferred == callee = "inferIndustry" /\ pc = "done"

IndustryOrder ==
  <<"tech", "finance", "healthcare", "ecommerce", "education", "marketing", "gaming">>

\* the text has a keyword of the k-th set of the declaration
SetMatches(text, k) ==
  \E e \in 1..Len(industries) :
    /\ industries[e].industry = IndustryOrder[k]
    /\ \E keyword \in industries[e].keywords : Includes(text, keyword)

\* C21: over the lower-cased title + ' ' + description inferIndustry answers
\* the first of tech, finance, healthcare, ecommerce, education, marketing,
\* gaming that has a matching keyword, and 'general' exactly when none has.
C21_FirstSetWins ==
  Inferred =>
    LET text == ToLowerCase(input.title \o " " \o input.description)
        hits == {k \in 1..7 : SetMatches(text, k)}
    IN  /\ (output = "general") <=> (hits = {})
        /\ hits # {} =>
             \E k \in hits : /\ \A j \in hits : k <= j
                             /\ output = IndustryOrder[k]

\* a text with a finance keyword and a tech keyword is tech
C21_Witness ==
  /\ Inferred
  /\ input.title = "Payment API" /\ input.description = "Media for every player"
  /\ output = "tech"


(***************************************************************************)
(* The warnings log of one request                                         *)
(***************************************************************************)
IsPrefix(a, b) == Len(a) <= Len(b) /\ SubSeq(b, 1, Len(a)) = a

\* C22: in a request of extractUrlContent or extractDocsContent every step,
\* of the function or of anything it calls, leaves the earlier log as a
\* prefix of the later one, so the log that is returned holds every warning
\* that was appended.
C22_WarningsAppendOnly ==
  [][(entry \in {"url", "docs"}) => IsPrefix(warnings, warnings')]_vars

\* a request that returns a log built up by several steps
C22_Witness ==
  /\ entry = "url" /\ outcome = "returned"
  /\ Len(warnings) >= 5
  /\ warnings[1] = "Tabstack content extraction failed"
  /\ warnings[Len(warnings)] = LogoDownloadWarning


(***************************************************************************)
(* calculateVideoMetadata called directly                                  *)
(***************************************************************************)
Calculated == callee = "calculateVideoMetadata" /\ pc = "done"

\* the duration of the file was read: its path is set and the read succeeded
NarrationRead == input.props.narrationPath /\ input.reads.narration # Null
MusicRead == input.props.musicPath /\ input.reads.music # Null

\* C23: the duration comes from the narration whenever it is read, whatever
\* its length; from the music only when the narration is absent or
\* unreadable; from props.duration only when both are; and is 900 frames only
\* when nothing is available.
C23_DurationPriority ==
  Calculated =>
    output = IF NarrationRead THEN CeilFrames(input.reads.narration[1])
             ELSE IF MusicRead THEN CeilFrames(input.reads.music[1])
             ELSE IF input.props.duration # 0 THEN CeilFrames(input.props.duration)
             ELSE DEFAULT_DURATION_FRAMES

\* a narration of exactly 30 s gives way to the 45 s music
C23_Witness ==
  /\ Calculated
  /\ NarrationRead /\ input.reads.narration = Some(3000)
  /\ MusicRead /\ input.reads.music = Some(4500)
  /\ output = 1350

\* when the narration is read and does not come to 900 frames it decides alone
C23_NarrationOffSentinel ==
  (Calculated /\ NarrationRead
     /\ CeilFrames(input.reads.narration[1]) # DEFAULT_DURATION_FRAMES) =>
    output = CeilFrames(input.reads.narration[1])


(***************************************************************************)
(* Browsers                                                                *)
(***************************************************************************)
\* C24: every browser launched during a run has been closed by the time the
\* function that launched it returns or throws, on every path.
C24_BrowsersClosed == leaked = 0

\* the request has returned and a browser of takeScreenshot is still open
C24_Witness ==
  /\ entry = "url" /\ outcome = "returned"
  /\ leaked = 1


(***************************************************************************)
(* The theme of a returned BrandingResult                                  *)
(***************************************************************************)
\* C25: in every BrandingResult returned by extractBranding,
\* extractUrlContent and extractDocsContent, theme is detectTheme of the
\* final colours of that result, whether they were refined by CSS after the
\* branding was built, built in one go, or are the substituted defaults.
C25_ThemeOfFinalColours ==
  (entry \in {"branding", "url", "docs"} /\ outcome = "returned") =>
    /\ branding # Null
    /\ branding[1].theme = detectTheme(branding[1].colors)

\* a branding built from a dark screenshot and refined afterwards by CSS
C25_Witness ==
  /\ entry = "url" /\ outcome = "returned"
  /\ branding[1].logo.quality # "favicon"
  /\ baseline # Null
  /\ branding[1].colors.primary # baseline[1].primary
  /\ branding[1].theme = "dark"


(***************************************************************************)
(* extractUrlContent: where the content comes from                         *)
(***************************************************************************)
TabstackContentFailed == Count(warnings, "Tabstack content extraction failed") > 0

\* C26: when extractUrlContent returns, content and branding are there, and
\* extractionMethod names the source of the content: 'tabstack' iff Tabstack
\* succeeded, 'playwright-fallback' iff Tabstack failed and Playwright gave
\* content, 'placeholder-fallback' iff both failed; each fallback has pushed
\* its warning, and with Tabstack succeeding the content is Tabstack's.
C26_ContentSource ==
  (entry = "url" /\ outcome = "returned") =>
    /\ content # Null /\ branding # Null
    /\ extractionMethod \in {"tabstack", "playwright-fallback", "placeholder-fallback"}
    /\ (extractionMethod = "tabstack") <=> ~TabstackContentFailed
    /\ ~TabstackContentFailed => content = Some("tabstack")
    /\ (extractionMethod = "playwright-fallback")
         <=> (TabstackContentFailed /\ content = Some("playwright"))
    /\ (extractionMethod = "placeholder-fallback")
         <=> (TabstackContentFailed /\ content = Some("placeholder"))
    /\ Count(warnings, "Content extracted via Playwright")
         = (IF extractionMethod = "playwright-fallback" THEN 1 ELSE 0)
    /\ Count(warnings, "PLACEHOLDER CONTENT")
         = (IF extractionMethod = "placeholder-fallback" THEN 1 ELSE 0)

\* both sources failed
C26_Witness ==
  /\ entry = "url" /\ outcome = "returned"
  /\ TabstackContentFailed
  /\ Count(warnings, "Playwright extraction failed") = 1
  /\ content = Some("placeholder")
  /\ extractionMethod = "placeholder-fallback"


(***************************************************************************)
(* extractDocsContent: where the markdown comes from                       *)
(***************************************************************************)
\* C27: in what extractDocsContent returns, extractionMethod is
\* 'tabstack-markdown' only when Tabstack produced the markdown, and
\* 'playwright-fallback' exactly when Tabstack failed and the Playwright DOM
\* extraction produced it; the placeholder markdown comes with two warnings
\* and is not labelled as Tabstack output.
C27_MarkdownSource ==
  (entry = "docs" /\ outcome = "returned") =>
    /\ extractionMethod = "tabstack-markdown" => content = Some("tabstack")
    /\ (extractionMethod = "playwright-fallback") <=> content = Some("playwright")
    /\ content = Some("placeholder") =>
         /\ Count(warnings, "Tabstack markdown extraction failed") = 1
         /\ Count(warnings, "Playwright markdown fallback failed") = 1
         /\ extractionMethod # "tabstack-markdown"

\* the placeholder markdown returned under the label of Tabstack
C27_Witness ==
  /\ entry = "docs" /\ outcome = "returned"
  /\ content = Some("placeholder")
  /\ Count(warnings, "Tabstack markdown extraction failed") = 1
  /\ Count(warnings, "Playwright markdown fallback failed") = 1
  /\ extractionMethod = "tabstack-markdown"

\* apart from the label of the placeholder the chain is as stated
C27_MarkdownSourceButPlaceholder ==
  (entry = "docs" /\ outcome = "returned") =>
    /\ content = Some("tabstack") => extractionMethod = "tabstack-markdown"
    /\ (extractionMethod = "playwright-fallback") <=> content = Some("playwright")
    /\ content = Some("placeholder") =>
         /\ Count(warnings, "Tabstack markdown extraction failed") = 1
         /\ Count(warnings, "Playwright markdown fallback failed") = 1


(***************************************************************************)
(* detectBeats                                                             *)
(***************************************************************************)
\* the method gave a list with a beat in it
GaveBeats(r) == r # Null /\ Len(r[1]) > 0

RECURSIVE FirstHit(_, _)
\* the index of the first probe from k on that was answered with a 200, 0 if none
FirstHit(ps, k) ==
  IF k > Len(ps) THEN 0
  ELSE IF ps[k].result = "200" THEN k
  ELSE FirstHit(ps, k + 1)

\* C29: in every result of extractLogoFromCloud quality is 'high' iff url is
\* the brand-API URL of the domain, 'medium' iff url is one of the six common
\* paths under the page origin, 'favicon' iff url is the favicon-service URL
\* of the domain; a warning is appended iff quality is 'favicon'; and the
\* result is a function of the probe outcomes alone.
C29_QualityMatchesUrl ==
  lpc = "ret" =>
    LET paths == commonPaths(ParseUrl(url).origin)
        hit   == FirstHit(probes, 1)
    IN  /\ lres.quality \in {"high", "medium", "favicon"}
        /\ (lres.quality = "high") <=> (lres.url = ClearbitUrl(ldomain))
        /\ (lres.quality = "medium") <=> (\E k \in 1..Len(paths) : lres.url = paths[k])
        /\ (lres.quality = "favicon") <=> (lres.url = FaviconUrl(ldomain))
        /\ warnings = (IF lres.quality = "favicon"
                       THEN Append(lw0, FaviconWarning(ldomain)) ELSE lw0)
        /\ lres = (IF hit = 0 THEN [url |-> FaviconUrl(ldomain), quality |-> "favicon"]
                   ELSE [url |-> probes[hit].url,
                         quality |-> IF hit = 1 THEN "high" ELSE "medium"])

\* a medium result from the third common path
C29_Witness ==
  /\ lpc = "ret"
  /\ Len(probes) = 4
  /\ lres.quality = "medium"
  /\ lres.url = commonPaths(ParseUrl(url).origin)[3]
  /\ warnings = lw0


(***************************************************************************)
(* The logo download step                                                  *)
(***************************************************************************)
\* the branding b apart from the static path of its logo
BrandingCore(b) ==
  [url |-> b.logo.url, quality |-> b.logo.quality, colors |-> b.colors, theme |-> b.theme]

\* C30: the logo download of extractUrlContent / extractDocsContent runs
\* once, on the finished branding; it sets logo.staticPath iff the download
\* gave a non-empty path and otherwise appends exactly one 'Logo download
\* failed' warning; it never raises and leaves logo.url, logo.quality,
\* colors and theme as they were.
C30_DownloadStep ==
  [][(entry \in {"url", "docs"} /\ pc = "download") =>
       /\ branding # Null
       /\ branding[1].logo.staticPath = Null
       /\ Count(warnings, LogoDownloadWarning) = 0
       /\ pc' = "done" /\ outcome' = "returned"
       /\ BrandingCore(branding'[1]) = BrandingCore(branding[1])
       /\ \E d \in Downloads :
            LET path == downloadLogoToPublic(branding[1].logo.url, domain, d)
            IN  IF path # ""
                THEN /\ branding'[1].logo.staticPath = Some(path)
                     /\ warnings' = warnings
                ELSE /\ branding'[1].logo.staticPath = Null
                     /\ warnings' = Append(warnings, LogoDownloadWarning)
    ]_vars

\* a failed download: the warning once, no static path, the request returned
C30_Witness ==
  /\ entry = "docs" /\ outcome = "returned"
  /\ branding[1].logo.quality = "medium"
  /\ branding[1].logo.staticPath = Null
  /\ Count(warnings, LogoDownloadWarning) = 1


====
